---------------------------- MODULE Spec2Model ----------------------------
(***************************************************************************)
(* A model of the release orchestration of rbkayz/autorelease:             *)
(*   - the probot handler of pull_request.closed and its two stages        *)
(*     (PRService.handleFeatureMergedToStaging and                         *)
(*     PRService.handleStagingMergedToRelease), one action per remote      *)
(*     call (every await is a point where other events may interleave);    *)
(*   - the pure text functions they use (addNewBulletsToBody,              *)
(*     parseSummary, calculateNewVersion), computed on strings the way     *)
(*     the JavaScript computes them.                                       *)
(***************************************************************************)
EXTENDS Integers, Sequences, FiniteSets, TLC

VARIABLES
    mBody,      \* SpecMerge: the document, result of the last merge
    mPrev,      \* SpecMerge: the document the last merge was applied to
    mFeatures,  \* SpecMerge: the feature bullets of the last merge
    mBugs,      \* SpecMerge: the bug bullets of the last merge
    mCount,     \* SpecMerge: number of merges applied so far
    call,       \* SpecCalls: the last call of a pure function, with its
                \* arguments and its result
    configFile, \* what .github/release-manager.json of the repository is
    pulls,      \* the repository's pull requests, in order of creation
    comments,   \* the issue comments of the repository, in order of creation
    releases,   \* the releases of the repository, in order of creation
    tags,       \* the tag names of the repository, newest first
    events,     \* the pull_request.closed events delivered so far, each with
                \* the state of the handler invocation that processes it
    writes,     \* the remote writes issued so far, in order
    clock       \* the day of the month new Date() reports

mvars == <<mBody, mPrev, mFeatures, mBugs, mCount>>
svars == <<configFile, pulls, comments, releases, tags, events, writes, clock>>
\* what no step of a handler changes
fvars == <<mvars, call, configFile>>
vars == <<mvars, call, svars>>

(***************************************************************************)
(* JavaScript string primitives used by the handlers.  Offsets are        *)
(* 0-based as in the source; SubSeq is 1-based.                            *)
(***************************************************************************)

\* s.substring(a, b) with a <= b, both clamped to the string.
Substring(s, a, b) ==
    LET lo == IF a < 0 THEN 0 ELSE IF a > Len(s) THEN Len(s) ELSE a
        hi == IF b < 0 THEN 0 ELSE IF b > Len(s) THEN Len(s) ELSE b
    IN  IF lo <= hi THEN SubSeq(s, lo + 1, hi) ELSE SubSeq(s, hi + 1, lo)

\* s.substring(a): from offset a to the end.
SubstringFrom(s, a) == Substring(s, a, Len(s))

\* the character of s at offset i ("" outside the string)
CharAt(s, i) == IF i >= 0 /\ i < Len(s) THEN SubSeq(s, i + 1, i + 1) ELSE ""

\* s.startsWith(p, i)
StartsWithAt(s, p, i) ==
    /\ i >= 0
    /\ i + Len(p) <= Len(s)
    /\ SubSeq(s, i + 1, i + Len(p)) = p

\* s.indexOf(p, from): the first offset k >= from at which p occurs in s,
\* -1 if there is none
IndexOf(s, p, from) ==
    LET lo   == IF from < 0 THEN 0 ELSE from
        hits == {k \in lo..(Len(s) - Len(p)) : SubSeq(s, k + 1, k + Len(p)) = p}
    IN  IF hits = {} THEN -1 ELSE CHOOSE k \in hits : \A j \in hits : k <= j

\* s.includes(p)
Includes(s, p) == IndexOf(s, p, 0) # -1

RECURSIVE Join(_, _)
\* lines.join(sep)
Join(lines, sep) ==
    IF lines = <<>> THEN ""
    ELSE IF Len(lines) = 1 THEN lines[1]
    ELSE lines[1] \o sep \o Join(Tail(lines), sep)

RECURSIVE GetSubstitution(_, _, _, _)
\* The replacement text of String.prototype.replace(pattern, replacement)
\* for a string pattern: in the replacement "$$" stands for "$", "$&" for
\* the matched text and "$'" for the text after the match; every other
\* character stands for itself ("$1" too: a string pattern captures
\* nothing).  The dollar-grave pattern (the text before the match) is left
\* out: no text of the model contains a grave accent.
GetSubstitution(matched, after, replacement, i) ==
    LET d == IndexOf(replacement, "$", i)
        n == CharAt(replacement, d + 1)
    IN  IF d = -1 THEN SubstringFrom(replacement, i)
        ELSE Substring(replacement, i, d) \o
             (IF n = "$" THEN "$" \o GetSubstitution(matched, after, replacement, d + 2)
              ELSE IF n = "&" THEN matched \o GetSubstitution(matched, after, replacement, d + 2)
              ELSE IF n = "'" THEN after \o GetSubstitution(matched, after, replacement, d + 2)
              ELSE "$" \o GetSubstitution(matched, after, replacement, d + 1))

\* s.replace(pattern, replacement), pattern a string: the first occurrence
\* of pattern is replaced, nothing is replaced when there is none.
Replace(s, pattern, replacement) ==
    LET pos == IndexOf(s, pattern, 0)
    IN  IF pos = -1 THEN s
        ELSE LET before == Substring(s, 0, pos)
                 after  == SubstringFrom(s, pos + Len(pattern))
             IN  before \o GetSubstitution(pattern, after, replacement, 0) \o after

(***************************************************************************)
(* PRService.addNewBulletsToBody and the regular expressions it uses.      *)
(***************************************************************************)

FEATURES_SECTION == "New Features"
BUGS_SECTION == "Bugs / Improvements"

FEATURES_PLACEHOLDER == "<!-- New feature summaries will be added here -->"
BUGS_PLACEHOLDER == "<!-- Bug fixes and improvements will be added here -->"

\* prBody.match(new RegExp('(## <section>.*?)(\\n## |$)', 's')): the match
\* starts at the first occurrence of "## <section>"; the lazy, dot-all
\* group 1 runs to the first "\n## " after the header, or to the end of the
\* text.  found is FALSE when match() returns null.
sectionMatch(prBody, section) ==
    LET header == "## " \o section
        start  == IndexOf(prBody, header, 0)
        stop   == IF start = -1 THEN -1
                  ELSE IndexOf(prBody, "\n## ", start + Len(header))
    IN  [found |-> start # -1,
         text  |-> IF start = -1 THEN ""
                   ELSE IF stop = -1 THEN SubstringFrom(prBody, start)
                   ELSE Substring(prBody, start, stop)]

RECURSIVE commentMatchFrom(_, _)
\* sectionContent.match(/<!--.*?-->\n/)?.[0]?.length, 0 when there is no
\* match: the leftmost "<!--" that is closed by "-->" at the end of its own
\* line (the dot does not match a newline), with the newline.
commentMatchFrom(sectionContent, from) ==
    LET open == IndexOf(sectionContent, "<!--", from)
        nl   == IndexOf(sectionContent, "\n", open + 4)
    IN  IF open = -1 THEN 0
        ELSE IF nl # -1 /\ nl - 3 >= open + 4
                /\ Substring(sectionContent, nl - 3, nl) = "-->"
             THEN nl + 1 - open
        ELSE commentMatchFrom(sectionContent, open + 1)

commentMatchLength(sectionContent) == commentMatchFrom(sectionContent, 0)

\* const insertPoint = <comment match length> ? indexOf('\n', <length>) + 1
\*                                            : indexOf('\n') + 1
insertPoint(sectionContent) ==
    LET length == commentMatchLength(sectionContent)
    IN  IF length # 0 THEN IndexOf(sectionContent, "\n", length) + 1
        ELSE IndexOf(sectionContent, "\n", 0) + 1

\* One "Add ... bullets" block of addNewBulletsToBody.
insertBullets(prBody, section, bullets) ==
    IF Len(bullets) = 0 THEN prBody
    ELSE LET m == sectionMatch(prBody, section)
         IN  IF ~m.found THEN prBody
             ELSE LET sectionContent == m.text
                      ip == insertPoint(sectionContent)
                      newSectionContent ==
                          Substring(sectionContent, 0, ip)
                          \o Join(bullets, "\n")
                          \o (IF Len(bullets) > 0 THEN "\n" ELSE "")
                          \o SubstringFrom(sectionContent, ip)
                  IN  Replace(prBody, sectionContent, newSectionContent)

\* createSection without its test: the section is appended whether or not
\* the body has the header
createSectionAlways(prBody, section, placeholder) ==
    prBody \o "\n\n## " \o section \o "\n" \o placeholder \o "\n"

\* "Create section headers if they don't exist"
createSection(prBody, section, placeholder) ==
    IF ~Includes(prBody, "## " \o section)
    THEN prBody \o "\n\n## " \o section \o "\n" \o placeholder \o "\n"
    ELSE prBody

addNewBulletsToBody(prBody, featuresSection, featureBullets, bugsSection, bugBullets) ==
    LET withFeatures == createSection(prBody, featuresSection, FEATURES_PLACEHOLDER)
        withBoth     == createSection(withFeatures, bugsSection, BUGS_PLACEHOLDER)
        afterFeatures == insertBullets(withBoth, featuresSection, featureBullets)
    IN  insertBullets(afterFeatures, bugsSection, bugBullets)

(***************************************************************************)
(* More string primitives: character classes, case folding, trimming and   *)
(* numbers, as the regular expressions and parseInt of the source use      *)
(* them.                                                                   *)
(***************************************************************************)

UPPER_CASE == "ABCDEFGHIJKLMNOPQRSTUVWXYZ"
LOWER_CASE == "abcdefghijklmnopqrstuvwxyz"
DIGITS == "0123456789"

\* \s of a regular expression, over the characters of the model
IsWhitespace(c) == c \in {" ", "\n", "\t"}

\* \d of a regular expression
IsDigit(c) == Len(c) = 1 /\ Includes(DIGITS, c)

LowerChar(c) ==
    LET i == IndexOf(UPPER_CASE, c, 0)
    IN  IF i = -1 THEN c ELSE CharAt(LOWER_CASE, i)

UpperChar(c) ==
    LET i == IndexOf(LOWER_CASE, c, 0)
    IN  IF i = -1 THEN c ELSE CharAt(UPPER_CASE, i)

RECURSIVE ToLowerCase(_)
\* s.toLowerCase(); also the case folding of the i flag
ToLowerCase(s) ==
    IF Len(s) = 0 THEN ""
    ELSE IF Len(s) = 1 THEN LowerChar(s)
    ELSE LET h == Len(s) \div 2
         IN  ToLowerCase(SubSeq(s, 1, h)) \o ToLowerCase(SubSeq(s, h + 1, Len(s)))

RECURSIVE ToUpperCase(_)
\* s.toUpperCase()
ToUpperCase(s) ==
    IF Len(s) = 0 THEN ""
    ELSE IF Len(s) = 1 THEN UpperChar(s)
    ELSE LET h == Len(s) \div 2
         IN  ToUpperCase(SubSeq(s, 1, h)) \o ToUpperCase(SubSeq(s, h + 1, Len(s)))

\* the first offset k >= from at which p occurs in s, letter case ignored
IndexOfIgnoreCase(s, p, from) == IndexOf(ToLowerCase(s), ToLowerCase(p), from)

\* the first offset k >= from of s that holds no whitespace (Len(s) if none)
SkipWhitespace(s, from) ==
    LET rest == {k \in from..(Len(s) - 1) : ~IsWhitespace(CharAt(s, k))}
    IN  IF rest = {} THEN (IF from > Len(s) THEN from ELSE Len(s))
        ELSE CHOOSE k \in rest : \A j \in rest : k <= j

\* s.trim()
Trim(s) ==
    LET keep == {k \in 0..(Len(s) - 1) : ~IsWhitespace(CharAt(s, k))}
    IN  IF keep = {} THEN ""
        ELSE LET lo == CHOOSE k \in keep : \A j \in keep : k <= j
                 hi == CHOOSE k \in keep : \A j \in keep : k >= j
             IN  Substring(s, lo, hi + 1)

RECURSIVE Split(_, _)
\* s.split(sep), sep a non-empty string
Split(s, sep) ==
    LET at == IndexOf(s, sep, 0)
    IN  IF at = -1 THEN <<s>>
        ELSE <<Substring(s, 0, at)>> \o Split(SubstringFrom(s, at + Len(sep)), sep)

RECURSIVE DigitsValue(_)
\* the number a non-empty string of digits denotes
DigitsValue(ds) ==
    IF Len(ds) = 0 THEN 0
    ELSE DigitsValue(SubSeq(ds, 1, Len(ds) - 1)) * 10
         + IndexOf(DIGITS, SubSeq(ds, Len(ds), Len(ds)), 0)

\* parseInt(s, 10): leading whitespace is skipped and the longest run of
\* digits that follows is the number; <<>> stands for NaN.  (No text of the
\* model carries a sign.)
ParseInt(s) ==
    LET start == SkipWhitespace(s, 0)
        nondigits == {k \in start..(Len(s) - 1) : ~IsDigit(CharAt(s, k))}
        stop == IF nondigits = {} THEN Len(s)
                ELSE CHOOSE k \in nondigits : \A j \in nondigits : k <= j
    IN  IF stop <= start THEN <<>> ELSE <<DigitsValue(Substring(s, start, stop))>>

RECURSIVE NatToString(_)
NatToString(n) ==
    IF n < 10 THEN CharAt(DIGITS, n)
    ELSE NatToString(n \div 10) \o CharAt(DIGITS, n % 10)

\* String(x) of a number: x is <<n>>, or <<>> for NaN
NumberToString(x) == IF x = <<>> THEN "NaN" ELSE NatToString(x[1])

\* x + 1 on numbers (NaN + 1 is NaN)
PlusOne(x) == IF x = <<>> THEN <<>> ELSE <<x[1] + 1>>

(***************************************************************************)
(* utils/helpers.ts                                                        *)
(***************************************************************************)

\* versionParts[i] || '0'
PartOrZero(parts, i) == IF i > Len(parts) \/ parts[i] = "" THEN "0" ELSE parts[i]

\* calculateNewVersion without the reset of the lower components
calculateNewVersionNoReset(currentVersion, releaseType) ==
    LET versionParts == Split(currentVersion, ".")
        major == ParseInt(PartOrZero(versionParts, 1))
        minor == ParseInt(PartOrZero(versionParts, 2))
        patch == ParseInt(PartOrZero(versionParts, 3))
    IN  IF releaseType = "major"
        THEN NumberToString(PlusOne(major)) \o "." \o NumberToString(minor)
             \o "." \o NumberToString(patch)
        ELSE IF releaseType = "minor"
        THEN NumberToString(major) \o "." \o NumberToString(PlusOne(minor))
             \o "." \o NumberToString(patch)
        ELSE NumberToString(major) \o "." \o NumberToString(minor) \o "."
             \o NumberToString(PlusOne(patch))

calculateNewVersion(currentVersion, releaseType) ==
    LET versionParts == Split(currentVersion, ".")
        major == ParseInt(PartOrZero(versionParts, 1))
        minor == ParseInt(PartOrZero(versionParts, 2))
        patch == ParseInt(PartOrZero(versionParts, 3))
    IN  IF releaseType = "major"
        THEN NumberToString(PlusOne(major)) \o ".0.0"
        ELSE IF releaseType = "minor"
        THEN NumberToString(major) \o "." \o NumberToString(PlusOne(minor)) \o ".0"
        ELSE NumberToString(major) \o "." \o NumberToString(minor) \o "."
             \o NumberToString(PlusOne(patch))

\* the next offset >= from that starts a line (^ under the m flag) and
\* holds "-" or "*", -1 if there is none
NextBulletStart(content, from) ==
    LET starts == {k \in from..(Len(content) - 1) :
                      /\ CharAt(content, k) \in {"-", "*"}
                      /\ k = 0 \/ CharAt(content, k - 1) = "\n"
                      /\ IsWhitespace(CharAt(content, k + 1))}
    IN  IF starts = {} THEN -1 ELSE CHOOSE k \in starts : \A j \in starts : k <= j

\* the offset of the end of the line that holds offset k
EndOfLine(content, k) ==
    LET nl == IndexOf(content, "\n", k)
    IN  IF nl = -1 THEN Len(content) ELSE nl

RECURSIVE execBullets(_, _)
\* while ((match = /^[-*]\s+(.+)$/gm.exec(content)) !== null)
\*   if (match[1] && match[1].trim()) bullets.push(match[1].trim())
\* The greedy \s+ runs over newlines too; the capture is the rest of the
\* line it stops in.  When the whitespace runs to the end of the text the
\* only captures left to the expression are blank, and those are not
\* pushed.
execBullets(content, from) ==
    LET start == NextBulletStart(content, from)
        text  == SkipWhitespace(content, start + 1)
        stop  == EndOfLine(content, text)
    IN  IF start = -1 \/ text >= Len(content) THEN <<>>
        ELSE <<Trim(Substring(content, text, stop))>> \o execBullets(content, stop)

\* aiSummary.match(/New Features[\s\S]*?(?=\s*Bugs \/ Improvements|$)/i)?.[0]
\* ("" when there is no match)
featuresMatch(aiSummary) ==
    LET start == IndexOfIgnoreCase(aiSummary, FEATURES_SECTION, 0)
        from  == start + Len(FEATURES_SECTION)
        bugs  == IndexOfIgnoreCase(aiSummary, BUGS_SECTION, from)
        \* the lazy body stops at the first offset from which only
        \* whitespace is left before the bugs heading
        stops == {k \in from..bugs : SkipWhitespace(aiSummary, k) = bugs}
    IN  IF start = -1 THEN ""
        ELSE IF bugs = -1 THEN SubstringFrom(aiSummary, start)
        ELSE Substring(aiSummary, start, CHOOSE k \in stops : \A j \in stops : k <= j)

\* aiSummary.match(/Bugs \/ Improvements[\s\S]*$/i)?.[0]
bugsMatch(aiSummary) ==
    LET start == IndexOfIgnoreCase(aiSummary, BUGS_SECTION, 0)
    IN  IF start = -1 THEN "" ELSE SubstringFrom(aiSummary, start)

\* parseSummary(aiSummary): <<feature bullets, bug bullets>>, the bullets
\* of result[0] ('New Features') and of result[1] ('Bugs / Improvements')
parseSummary(aiSummary) ==
    IF Trim(aiSummary) = "" THEN <<<<>>, <<>>>>
    ELSE LET featuresContent == Trim(Replace(featuresMatch(aiSummary), FEATURES_SECTION, ""))
             bugsContent     == Trim(Replace(bugsMatch(aiSummary), BUGS_SECTION, ""))
         IN  <<execBullets(featuresContent, 0), execBullets(bugsContent, 0)>>

(***************************************************************************)
(* The texts PRService builds and the regular expressions it reads them    *)
(* with.                                                                   *)
(***************************************************************************)

\* the least and the greatest element of a non-empty set of offsets
Least(S) == CHOOSE k \in S : \A j \in S : k <= j
Greatest(S) == CHOOSE k \in S : \A j \in S : k >= j

\* s.replace(/^<prefix>/, ''): tag_name.replace(/^v/, ''),
\* name.replace(new RegExp('^' + prefix), ''), versionFromTitle.replace(/^v?/, '')
StripPrefix(s, prefix) ==
    IF StartsWithAt(s, prefix, 0) THEN SubstringFrom(s, Len(prefix)) ELSE s

\* sourcePR.user?.login || 'Unknown' (a null user is the empty login)
prAuthor(sourcePR) == IF sourcePR.user = "" THEN "Unknown" ELSE sourcePR.user

\* bullets.map((bullet) => "- <bullet> (via [#<number>](<html_url>) by @<author>)")
RECURSIVE withAttribution(_, _)
withAttribution(bullets, sourcePR) ==
    IF bullets = <<>> THEN <<>>
    ELSE <<"- " \o Head(bullets) \o " (via [#" \o NatToString(sourcePR.number)
           \o "](" \o sourcePR.html_url \o ") by @" \o prAuthor(sourcePR) \o ")">>
         \o withAttribution(Tail(bullets), sourcePR)

\* new Date().toISOString() on day clock of the month
toISOString(day) ==
    "2025-01-" \o (IF day < 10 THEN "0" ELSE "") \o NatToString(day)
    \o "T12:00:00.000Z"

\* prBody.replace(/\*Last updated:.*\*/, "*Last updated: <timestamp>*"):
\* the leftmost "*Last updated:" that has a "*" after it on its line is
\* replaced, up to the last "*" of the line (the dot is greedy and does not
\* match a newline).
replaceLastUpdated(prBody, timestamp) ==
    LET open == "*Last updated:"
        stars(k) == {j \in (k + Len(open))..(EndOfLine(prBody, k) - 1) :
                        CharAt(prBody, j) = "*"}
        hits == {k \in 0..(Len(prBody) - 1) :
                    StartsWithAt(prBody, open, k) /\ stars(k) # {}}
    IN  IF hits = {} THEN prBody
        ELSE LET k == Least(hits)
                 j == Greatest(stars(k))
                 after == SubstringFrom(prBody, j + 1)
             IN  Substring(prBody, 0, k)
                 \o GetSubstitution(Substring(prBody, k, j + 1), after,
                                    "*Last updated: " \o timestamp \o "*", 0)
                 \o after

\* updatedBody with a test it does not have: a body that already credits
\* the merged pull request is left as it is
updatedBodyOnce(prBody, aiSummary, sourcePR, day) ==
    IF Includes(prBody, "(via [#" \o NatToString(sourcePR.number) \o "](")
    THEN prBody
    ELSE replaceLastUpdated(
             addNewBulletsToBody(prBody, FEATURES_SECTION,
                                 withAttribution(parseSummary(aiSummary)[1], sourcePR),
                                 BUGS_SECTION,
                                 withAttribution(parseSummary(aiSummary)[2], sourcePR)),
             toISOString(day))

\* The body updatePRWithAISummary writes: the bullets of the summary, with
\* attribution, added to the body it fetched, and the timestamp replaced.
updatedBody(prBody, aiSummary, sourcePR, day) ==
    LET parsedSections == parseSummary(aiSummary)
        featureBulletsWithAttribution == withAttribution(parsedSections[1], sourcePR)
        bugBulletsWithAttribution == withAttribution(parsedSections[2], sourcePR)
    IN  replaceLastUpdated(
            addNewBulletsToBody(prBody, FEATURES_SECTION, featureBulletsWithAttribution,
                                BUGS_SECTION, bugBulletsWithAttribution),
            toISOString(day))

\* the comment addSummaryComment posts
commentBody(sourcePR, aiSummary) ==
    "### Merged: \"" \o sourcePR.title \o "\" (#" \o NatToString(sourcePR.number)
    \o ") by @" \o prAuthor(sourcePR) \o "\n\n" \o aiSummary
    \o "\n\n---\n_This summary was generated automatically by AI_"

\* response.match(/VERSION_TYPE:\s*(MAJOR|MINOR|PATCH)/i)?.[1], "" when
\* there is no match
versionMatch(response) ==
    LET lower == ToLowerCase(response)
        word(k) == SkipWhitespace(response, k + Len("version_type:"))
        hits == {k \in 0..(Len(response) - 1) :
                    /\ StartsWithAt(lower, "version_type:", k)
                    /\ \E t \in {"major", "minor", "patch"} :
                          StartsWithAt(lower, t, word(k))}
    IN  IF hits = {} THEN ""
        ELSE Substring(response, word(Least(hits)), word(Least(hits)) + 5)

\* response.match(/SUMMARY:\s*(.+?)(?:\n|$)/i): the capture is the rest of
\* the line the greedy \s* stops in; when only whitespace follows
\* "SUMMARY:" the expression backtracks to a capture of one blank.
summaryMatch(response) ==
    LET k == IndexOfIgnoreCase(response, "SUMMARY:", 0)
        a == k + Len("SUMMARY:")
        q == SkipWhitespace(response, a)
        blanks == {p \in a..(Len(response) - 1) : CharAt(response, p) # "\n"}
    IN  IF k = -1 THEN [found |-> FALSE, text |-> ""]
        ELSE IF q < Len(response)
        THEN [found |-> TRUE, text |-> Substring(response, q, EndOfLine(response, q))]
        ELSE IF blanks # {}
        THEN [found |-> TRUE, text |-> CharAt(response, Greatest(blanks))]
        ELSE [found |-> FALSE, text |-> ""]

DEFAULT_SUMMARY == "New features and improvements"

\* const versionType = versionMatch ? versionMatch[1].toUpperCase() : 'PATCH'
versionTypeOf(response) ==
    IF versionMatch(response) = "" THEN "PATCH" ELSE ToUpperCase(versionMatch(response))

\* oneLineOf without the limit of 60 characters
oneLineUnlimited(response) ==
    LET m == summaryMatch(response)
    IN  IF m.found THEN Trim(m.text) ELSE DEFAULT_SUMMARY

\* "Limit summary to 60 characters"
oneLineOf(response) ==
    LET m == summaryMatch(response)
        summary == IF m.found THEN Trim(m.text) ELSE DEFAULT_SUMMARY
    IN  IF Len(summary) > 60 THEN Substring(summary, 0, 57) \o "..." ELSE summary

\* the title updatePRTitleWithInfo writes
newTitle(versionType, prefix, currentVersion, summary) ==
    versionType \o " Release: " \o prefix
    \o calculateNewVersion(currentVersion, ToLowerCase(versionType))
    \o ": " \o summary

\* the first offset k >= from of s that holds no digit (Len(s) if none):
\* where a greedy \d+ that starts at from stops
DigitsEnd(s, from) ==
    LET rest == {k \in from..(Len(s) - 1) : ~IsDigit(CharAt(s, k))}
    IN  IF rest = {} THEN (IF from > Len(s) THEN from ELSE Len(s)) ELSE Least(rest)

\* pr.title.match(/^(MAJOR|MINOR|PATCH) Release: (v?\d+\.\d+\.\d+):/i)
titleMatch(title) ==
    LET upper == ToUpperCase(title)
        typed == \E t \in {"MAJOR", "MINOR", "PATCH"} :
                     StartsWithAt(upper, t \o " RELEASE: ", 0)
        v == Len("MAJOR Release: ")
        d == IF CharAt(upper, v) = "V" THEN v + 1 ELSE v
        a == DigitsEnd(title, d)
        b == DigitsEnd(title, a + 1)
        c == DigitsEnd(title, b + 1)
        found == /\ typed
                 /\ a > d /\ CharAt(title, a) = "."
                 /\ b > a + 1 /\ CharAt(title, b) = "."
                 /\ c > b + 1 /\ CharAt(title, c) = ":"
    IN  [found |-> found,
         versionType |-> IF found THEN Substring(title, 0, 5) ELSE "",
         versionFromTitle |-> IF found THEN Substring(title, v, c) ELSE ""]

\* the tag handleStagingMergedToRelease publishes for a title that matched
releaseVersion(versionFromTitle, versionPrefix) ==
    versionPrefix \o StripPrefix(versionFromTitle, "v")

\* line.replace(/<!-- .* -->/, ''), for one line of the body: the greedy
\* dot runs from the first "<!-- " to the last " -->" of the line
removeComment(line) ==
    LET closes(k) == {j \in (k + 5)..(Len(line) - 1) : StartsWithAt(line, " -->", j)}
        opens == {k \in 0..(Len(line) - 1) :
                     StartsWithAt(line, "<!-- ", k) /\ closes(k) # {}}
    IN  IF opens = {} THEN line
        ELSE Substring(line, 0, Least(opens))
             \o SubstringFrom(line, Greatest(closes(Least(opens))) + 4)

RECURSIVE removeComments(_)
removeComments(ls) ==
    IF ls = <<>> THEN <<>> ELSE <<removeComment(Head(ls))>> \o removeComments(Tail(ls))

\* existingContent.match(/# Release .+\n/)?.[0], "" when there is no match
releaseHeaderMatch(existingContent) ==
    LET hits == {k \in 0..(Len(existingContent) - 1) :
                    /\ StartsWithAt(existingContent, "# Release ", k)
                    /\ EndOfLine(existingContent, k) > k + Len("# Release ")
                    /\ EndOfLine(existingContent, k) < Len(existingContent)}
    IN  IF hits = {} THEN ""
        ELSE Substring(existingContent, Least(hits),
                       EndOfLine(existingContent, Least(hits)) + 1)

\* what generateAISummary returns when its call fails
FALLBACK_SUMMARY == Join(<<"## New Features", "", "## Bugs / Improvements", "">>, "\n")

\* formatReleaseNotes, given the text generateAISummary returned
formatReleaseNotes(prBody, versionType, aiSummary, day) ==
    LET existingContent == Join(removeComments(Split(prBody, "\n")), "\n")
        metadata == Join(<<"**Release Type:** " \o versionType,
                           "**Release Date:** " \o Split(toISOString(day), "T")[1]>>, "\n")
        releaseTitle == releaseHeaderMatch(existingContent)
        notes == IF releaseTitle # ""
                 THEN releaseTitle \o "\n" \o metadata \o "\n\n" \o aiSummary
                 ELSE "# Release\n\n" \o metadata \o "\n\n" \o aiSummary
    IN  notes \o "\n\n---\n*This release was automatically published by the GitHub Release Bot with AI-generated summary.*"

(***************************************************************************)
(* SpecMerge: addNewBulletsToBody applied to a bounded set of documents.   *)
(* A pull-request body is free text: the draft may have been opened and    *)
(* edited by a person, so the documents are all texts of at most MaxLines  *)
(* lines drawn from DocLines, with or without a final newline.             *)
(***************************************************************************)

MaxLines == 3
MaxMerges == 2

OLD_BULLET == "- Old entry (via [#7](u/7) by @zed)"

DocLines ==
    { "## " \o FEATURES_SECTION, "## " \o BUGS_SECTION, "## Notes",
      FEATURES_PLACEHOLDER, "<!-- todo -->", OLD_BULLET, "" }

LineSeqs == UNION { [1..n -> DocLines] : n \in 0..MaxLines }

Docs == { Join(ls, "\n") \o t : ls \in LineSeqs, t \in {"", "\n"} }

\* attributed bullets as updatePRWithAISummary builds them
F1 == "- Add login (via [#1](u/1) by @ann)"
F2 == "- Add export (via [#1](u/1) by @ann)"
B1 == "- Fix crash (via [#1](u/1) by @ann)"
\* a bullet that quotes a dollar sign and names the "$&" placeholder
FD == "- Escape '$' and $& in templates (via [#2](u/2) by @bob)"

MergeArgs ==
    { <<<<>>, <<>>>>, <<<<F1>>, <<>>>>, <<<<>>, <<B1>>>>,
      <<<<F1, F2>>, <<B1>>>>, <<<<FD>>, <<>>>> }

\* no event is ever delivered under SpecMerge
NoRepository ==
    /\ configFile = "absent"
    /\ pulls = <<>>
    /\ comments = <<>>
    /\ releases = <<>>
    /\ tags = <<>>
    /\ events = <<>>
    /\ writes = <<>>
    /\ clock = 1

\* no pure function has been called
NoCall == call = [op |-> "none"]

InitMerge ==
    /\ NoRepository
    /\ NoCall
    /\ mBody \in Docs
    /\ mPrev = mBody
    /\ mFeatures = <<>>
    /\ mBugs = <<>>
    /\ mCount = 0

MergeBullets ==
    /\ mCount < MaxMerges
    /\ \E args \in MergeArgs :
        /\ mBody' = addNewBulletsToBody(mBody, FEATURES_SECTION, args[1],
                                        BUGS_SECTION, args[2])
        /\ mFeatures' = args[1]
        /\ mBugs' = args[2]
    /\ mPrev' = mBody
    /\ mCount' = mCount + 1
    /\ UNCHANGED <<call, svars>>

NextMerge == MergeBullets

SpecMerge == InitMerge /\ [][NextMerge]_vars

(***************************************************************************)
(* Spec: the probot handler of pull_request.closed on a repository.        *)
(* Events are delivered at any time; every await of a handler invocation   *)
(* is a step of its own, so invocations interleave at their remote calls.  *)
(***************************************************************************)

MaxEvents == 2

\* how many invocations may see a call of the repository API fail
MaxFailures == 1

DEFAULT_CONFIG ==
    [branches |-> [release |-> "main", staging |-> "staging"],
     pr       |-> [draftTitle |-> "{major}.{minor}.{patch} Release: {version}",
                   draftBody |-> "## Features to be released\n\n{features}\n\n---\n"
                       \o "*This PR was automatically created by the Release Manager.*\n"
                       \o "*Last updated: {timestamp}*",
                   featuresSection |-> "## Features to be released"],
     release  |-> [prefix |-> "v"],
     ai       |-> [enabled |-> TRUE]]

\* a configuration document a repository may carry in
\* .github/release-manager.json
CUSTOM_CONFIG ==
    [branches |-> [staging |-> "develop"],
     release  |-> [prefix |-> "rel-"]]

\* ConfigService.mergeConfigs: the keys of the custom configuration
\* replace those of the default one, section by section
mergeConfigs(defaultConfig, customConfig) ==
    [key \in DOMAIN defaultConfig |->
        IF key \in DOMAIN customConfig
        THEN [k \in DOMAIN defaultConfig[key] \cup DOMAIN customConfig[key] |->
                 IF k \in DOMAIN customConfig[key]
                 THEN customConfig[key][k] ELSE defaultConfig[key][k]]
        ELSE defaultConfig[key]]

\* payload.pull_request of the events the repository sends
PR_LOGIN ==
    [number |-> 1, title |-> "Add login", body |-> "", merged |-> TRUE,
     head |-> "feature/login", base |-> "staging", user |-> "ann", html_url |-> "u/1"]
PR_CRASH ==
    [number |-> 2, title |-> "Fix crash", body |-> "", merged |-> TRUE,
     head |-> "fix/crash", base |-> "staging", user |-> "bob", html_url |-> "u/2"]
\* closed without being merged
PR_ABANDONED ==
    [number |-> 3, title |-> "Try things", body |-> "", merged |-> FALSE,
     head |-> "feature/try", base |-> "staging", user |-> "ann", html_url |-> "u/3"]
\* the release branch merged back into staging
PR_BACKMERGE ==
    [number |-> 4, title |-> "Sync staging", body |-> "", merged |-> TRUE,
     head |-> "main", base |-> "staging", user |-> "bob", html_url |-> "u/4"]
\* a branch other than staging merged into the release branch
PR_HOTFIX ==
    [number |-> 6, title |-> "PATCH Release: v9.9.9: Hotfix", body |-> "", merged |-> TRUE,
     head |-> "hotfix", base |-> "main", user |-> "bob", html_url |-> "u/6"]

Payloads == {PR_LOGIN, PR_CRASH, PR_ABANDONED, PR_BACKMERGE, PR_HOTFIX}

\* what the feature-summary call answers for a merged pull request
S_LOGIN == "New Features\n- Add login\n\nBugs / Improvements\n- Speed up search"
S_CRASH == "New Features\n- Add crash report\n\nBugs / Improvements\n- Fix crash"

FeatureSummary(sourcePR) == IF sourcePR.number = 1 THEN S_LOGIN ELSE S_CRASH

\* what the version-type call may answer
V_MINOR == "VERSION_TYPE: minor\nSUMMARY: Login and faster search  \n"
V_UNPARSEABLE == "It depends."
V_LONG ==
    "VERSION_TYPE: MAJOR\nSUMMARY: Rework the login, the search and the crash reports of the site"

VersionResponses(sourcePR) ==
    {V_UNPARSEABLE, IF sourcePR.number = 1 THEN V_MINOR ELSE V_LONG}

\* what the release-notes call answers
RELEASE_SUMMARY == "## New Features\n- Login\n\n## Bugs / Improvements\n- Fixes"

\* A pull request from staging to the release branch that a person opened,
\* with the two headers and nothing else.
HAND_MADE_BODY == "## New Features\n\n## Bugs / Improvements"

\* A body in the shape the handlers leave, with a timestamp line.
DRAFT_BODY ==
    "## New Features\n" \o FEATURES_PLACEHOLDER \o "\n" \o OLD_BULLET
    \o "\n\n## Bugs / Improvements\n" \o BUGS_PLACEHOLDER
    \o "\n\n---\n*Last updated: 2024-12-31T12:00:00.000Z*\n"

PullRequest(number, title, body, draft) ==
    [number |-> number, title |-> title, body |-> body, head |-> "staging",
     base |-> "main", state |-> "open", draft |-> draft, merged |-> FALSE]

Release(tag, body) ==
    [tag_name |-> tag, name |-> tag, body |-> body, html_url |-> "r/" \o tag]

\* the repositories the handler is installed on
\* the repositories the handler is installed on: one without any pull
\* request, release or tag, taken with each state of the configuration
\* file, and two with an open pull request from staging to main, the
\* first of them with a tag newer than its latest release
Repositories ==
    { [configFile |-> file, pulls |-> <<>>, releases |-> <<>>, tags |-> <<>>] :
          file \in {"absent", "custom", "malformed"} }
    \cup
    { [configFile |-> "absent",
       pulls |-> <<PullRequest(5, "Release staging", HAND_MADE_BODY, FALSE)>>,
       releases |-> <<Release("v1.4.2", "")>>, tags |-> <<"v1.4.3", "v1.4.2">>],
      [configFile |-> "absent",
       pulls |-> <<PullRequest(8, "MINOR Release: v1.5.0: Old entry", DRAFT_BODY, TRUE)>>,
       releases |-> <<>>, tags |-> <<"v1.4.2">>] }

NoMerge ==
    /\ mBody = ""
    /\ mPrev = ""
    /\ mFeatures = <<>>
    /\ mBugs = <<>>
    /\ mCount = 0

Init ==
    /\ NoMerge
    /\ NoCall
    /\ \E repo \in Repositories :
        /\ configFile = repo.configFile
        /\ pulls = repo.pulls
        /\ releases = repo.releases
        /\ tags = repo.tags
    /\ comments = <<>>
    /\ events = <<>>
    /\ writes = <<>>
    /\ clock = 1

Running(ev) == ev.pc \notin {"done", "failed"}

\* The state of a handler invocation when its event arrives.
\*   pc: the remote call the invocation waits for; config: this.config;
\*   openAtLookup: how many open pull requests from staging to the release
\*   branch the repository had when findStagingToReleasePR last asked;
\*   failedCall: the call of the repository API that failed for the
\*   invocation and was caught, if any
NewEvent(pr, overlapped) ==
    [payload |-> pr, pc |-> "handler", error |-> "",
     config |-> DEFAULT_CONFIG,
     ranFeature |-> FALSE, ranRelease |-> FALSE, overlapped |-> overlapped,
     summaryCall |-> "none", versionCall |-> "none",
     aiSummary |-> "", openAtLookup |-> -1, prToUpdate |-> 0, created |-> FALSE,
     failedCall |-> "", notesCall |-> "none",
     prBody |-> "", newBody |-> "", fetchedAt |-> -1, wroteAt |-> -1,
     response |-> "", versionType |-> "", summary |-> "",
     currentVersion |-> "", resume |-> "",
     version |-> "", notes |-> ""]

\* the events with a new one appended; an invocation that is still running
\* when the new event arrives overlaps with it
Delivered(pr) ==
    LET busy == \E i \in 1..Len(events) : Running(events[i])
    IN  Append([i \in 1..Len(events) |->
                   IF Running(events[i])
                   THEN [events[i] EXCEPT !.overlapped = TRUE] ELSE events[i]],
               NewEvent(pr, busy))

\* The repository sends pull_request.closed for a pull request, or sends
\* an earlier event again.
Deliver ==
    /\ Len(events) < MaxEvents
    /\ \E pr \in Payloads \cup {events[i].payload : i \in 1..Len(events)} :
        events' = Delivered(pr)
    /\ clock' = clock + 1
    /\ UNCHANGED <<pulls, comments, releases, tags, writes, fvars>>

\* A person merges an open pull request from staging into the release
\* branch; the event carries the pull request as it is at that moment.
MergeStagingToRelease ==
    /\ Len(events) < MaxEvents
    /\ \E i \in 1..Len(pulls) :
        /\ pulls[i].state = "open"
        /\ pulls' = [pulls EXCEPT ![i].state = "closed", ![i].merged = TRUE]
        /\ events' = Delivered(
               [number |-> pulls[i].number, title |-> pulls[i].title,
                body |-> pulls[i].body, merged |-> TRUE, head |-> pulls[i].head,
                base |-> pulls[i].base, user |-> "ann",
                html_url |-> "u/" \o NatToString(pulls[i].number)])
    /\ clock' = clock + 1
    /\ UNCHANGED <<comments, releases, tags, writes, fvars>>

\* handleStagingMergedToRelease without the test of the title
StartReleaseAnyTitle(ev) ==
    LET pr == ev.payload
        stagingBranch == ev.config.branches.staging
        releaseBranch == ev.config.branches.release
        m == titleMatch(pr.title)
        entered == [ev EXCEPT !.ranRelease = TRUE]
    IN  IF ~pr.merged THEN [entered EXCEPT !.pc = "done"]
        ELSE IF pr.head # stagingBranch \/ pr.base # releaseBranch
        THEN [entered EXCEPT !.pc = "done"]
        ELSE [entered EXCEPT !.pc = "generateAISummary",
                             !.versionType = m.versionType,
                             !.version = releaseVersion(m.versionFromTitle,
                                                        ev.config.release.prefix)]

\* handleStagingMergedToRelease up to its first await: the checks of the
\* payload, the title, and the call of formatReleaseNotes, which waits for
\* generateAISummary
StartRelease(ev) ==
    LET pr == ev.payload
        stagingBranch == ev.config.branches.staging
        releaseBranch == ev.config.branches.release
        m == titleMatch(pr.title)
        entered == [ev EXCEPT !.ranRelease = TRUE]
    IN  IF ~pr.merged THEN [entered EXCEPT !.pc = "done"]
        ELSE IF pr.head # stagingBranch \/ pr.base # releaseBranch
        THEN [entered EXCEPT !.pc = "done"]
        ELSE IF ~m.found THEN [entered EXCEPT !.pc = "done"]
        ELSE [entered EXCEPT !.pc = "generateAISummary",
                             !.versionType = m.versionType,
                             !.version = releaseVersion(m.versionFromTitle,
                                                        ev.config.release.prefix)]

\* "Case 2" of the handler, evaluated when Case 1 did not apply or when the
\* feature stage has returned
Case2(ev) ==
    IF /\ ev.payload.base = ev.config.branches.release
       /\ ev.payload.head = ev.config.branches.staging
    THEN StartRelease(ev)
    ELSE [ev EXCEPT !.pc = "done"]

\* this.config.ai?.enabled, which callOpenAI tests before it calls out
AIEnabled(ev) == ev.config.ai.enabled

\* handleFeatureMergedToStaging up to the completion call of callOpenAI:
\* getPRDetails reads the diff and the commits of the merged pull request,
\* which no handler writes, and callOpenAI returns null at once when AI is
\* disabled, so that the stage returns and the handler goes on to Case 2.
StartFeature(ev) ==
    LET entered == [ev EXCEPT !.ranFeature = TRUE]
    IN  IF AIEnabled(ev) THEN [entered EXCEPT !.pc = "featureSummary"]
        ELSE Case2([entered EXCEPT !.summaryCall = "disabled"])

\* Dispatch without the test of the head branch in Case 1
DispatchAnyHead(ev) ==
    IF ev.payload.base = ev.config.branches.staging
    THEN StartFeature(ev)
    ELSE Case2(ev)

\* "Case 1" and "Case 2" of the handler
Dispatch(ev) ==
    IF /\ ev.payload.base = ev.config.branches.staging
       /\ ev.payload.head # ev.config.branches.release
    THEN StartFeature(ev)
    ELSE Case2(ev)

\* an error thrown inside the invocation that nothing catches
Throw(ev, error) == [ev EXCEPT !.pc = "failed", !.error = error]

\* loadConfig falling back to the defaults for a file it cannot parse
loadConfigLenient(file) ==
    IF file = "custom" THEN <<mergeConfigs(DEFAULT_CONFIG, CUSTOM_CONFIG)>>
    ELSE <<DEFAULT_CONFIG>>

\* ConfigService.loadConfig: the file is absent (the defaults are
\* returned), it holds a configuration (the merged configuration is
\* returned), or it cannot be read or parsed (the error is thrown).
\* <<>> stands for the error.
loadConfig(file) ==
    IF file = "absent" THEN <<DEFAULT_CONFIG>>
    ELSE IF file = "custom" THEN <<mergeConfigs(DEFAULT_CONFIG, CUSTOM_CONFIG)>>
    ELSE <<>>

\* app.on('pull_request.closed'): the check of pr.merged, the construction
\* of the PRService, the call of loadConfig and the two cases.  The handler
\* does not use the value loadConfig returns: this.config stays as it was
\* constructed.
ProbotHandler(e) ==
    /\ events[e].pc = "handler"
    /\ events' = [events EXCEPT ![e] =
           IF ~@.payload.merged THEN [@ EXCEPT !.pc = "done"]
           ELSE IF loadConfig(configFile) = <<>> THEN Throw(@, "ConfigurationError")
           ELSE Dispatch(@)]
    /\ UNCHANGED <<pulls, comments, releases, tags, writes, clock, fvars>>

\* The feature-summary completion returns: with a text, with no content
\* (callOpenAI throws 'No response from OpenAI'), or the call fails (the
\* error of the client is thrown).  Nothing on the way to the handler
\* catches either error.  With a summary, updateStagingToReleasePR starts
\* and findStagingToReleasePR lists the pull requests.
FeatureSummaryReturns(e) ==
    /\ events[e].pc = "featureSummary"
    /\ \E outcome \in {"text", "empty", "error"} :
        events' = [events EXCEPT ![e] =
            IF outcome = "text"
            THEN [@ EXCEPT !.summaryCall = "text",
                           !.aiSummary = FeatureSummary(events[e].payload),
                           !.pc = "listPRs"]
            ELSE IF outcome = "empty"
            THEN Throw([@ EXCEPT !.summaryCall = "empty"], "No response from OpenAI")
            ELSE Throw([@ EXCEPT !.summaryCall = "error"], "OpenAI request failed")]
    /\ UNCHANGED <<pulls, comments, releases, tags, writes, clock, fvars>>

\* pulls.list({state: 'open', head, base}): the numbers of the open pull
\* requests from head to base, newest first
RECURSIVE listPulls(_, _, _)
listPulls(head, base, i) ==
    IF i = 0 THEN <<>>
    ELSE (IF pulls[i].state = "open" /\ pulls[i].head = head /\ pulls[i].base = base
          THEN <<pulls[i]>> ELSE <<>>)
         \o listPulls(head, base, i - 1)

\* the first pull request of the listing, draft or not
selectFirst(prs) == prs[1]

\* prs.find((pr) => pr.draft === true) || prs[0]
selectPR(prs) ==
    LET drafts == {i \in 1..Len(prs) : prs[i].draft}
    IN  IF drafts # {} THEN prs[Least(drafts)] ELSE prs[1]

\* the index in pulls of the pull request with the given number
PullIndex(number) == CHOOSE i \in 1..Len(pulls) : pulls[i].number = number

\* a remote write, as it is logged in writes
Write(e, op, target) == [event |-> e, op |-> op, target |-> target]

\* The invocations for which a call of the repository API has failed so
\* far.  A call is taken to fail only when it had something to return: the
\* handlers treat the failure of a call that would have returned nothing
\* exactly as its empty result.
Failures == Cardinality({i \in 1..Len(events) : events[i].failedCall # ""})

\* findStagingToReleasePR returns undefined, and updateStagingToReleasePR
\* goes on to create a pull request, whose title needs the current version
NotFound(ev) == [ev EXCEPT !.pc = "getLatestRelease", !.resume = "createPR"]

\* findStagingToReleasePR, the first listing returns.  With a pull request
\* found, updatePRWithAISummary starts and fetches it.  When the listing
\* fails, the catch block of findStagingToReleasePR logs the error and
\* returns undefined.
ListPRs(e) ==
    /\ events[e].pc = "listPRs"
    /\ LET prs == listPulls(events[e].config.branches.staging,
                            events[e].config.branches.release, Len(pulls))
           asked == [events[e] EXCEPT !.openAtLookup = Len(prs)]
       IN  \/ events' = [events EXCEPT ![e] =
                  IF Len(prs) = 0 THEN [asked EXCEPT !.pc = "listPRsRetry"]
                  ELSE [asked EXCEPT !.prToUpdate = selectPR(prs).number,
                                     !.pc = "getBody"]]
           \/ /\ Failures < MaxFailures
              /\ Len(prs) > 0
              /\ events' = [events EXCEPT ![e] =
                     NotFound([asked EXCEPT !.failedCall = "pulls.list"])]
    /\ UNCHANGED <<pulls, comments, releases, tags, writes, clock, fvars>>

\* findStagingToReleasePR, the second listing (with the head branch
\* unqualified) returns, or fails as the first may.
ListPRsRetry(e) ==
    /\ events[e].pc = "listPRsRetry"
    /\ LET simplePrs == listPulls(events[e].config.branches.staging,
                                  events[e].config.branches.release, Len(pulls))
           asked == [events[e] EXCEPT !.openAtLookup = Len(simplePrs)]
       IN  \/ events' = [events EXCEPT ![e] =
                  IF Len(simplePrs) > 0
                  THEN [asked EXCEPT !.prToUpdate = selectPR(simplePrs).number,
                                     !.pc = "getBody"]
                  ELSE NotFound(asked)]
           \/ /\ Failures < MaxFailures
              /\ Len(simplePrs) > 0
              /\ events' = [events EXCEPT ![e] =
                     NotFound([asked EXCEPT !.failedCall = "pulls.list"])]
    /\ UNCHANGED <<pulls, comments, releases, tags, writes, clock, fvars>>

\* getCurrentVersion returns to the call it was made for
Resume(ev, version) == [ev EXCEPT !.currentVersion = version, !.pc = ev.resume]

\* getCurrentVersion, repos.getLatestRelease returns: the latest release,
\* or not found.  The inner catch block takes any error of the call, not
\* found or other, and goes on to list the tags.
GetLatestRelease(e) ==
    /\ events[e].pc = "getLatestRelease"
    /\ \/ events' = [events EXCEPT ![e] =
              IF releases # <<>>
              THEN Resume(@, StripPrefix(releases[Len(releases)].tag_name, "v"))
              ELSE [@ EXCEPT !.pc = "listTags"]]
       \/ /\ Failures < MaxFailures
          /\ releases # <<>>
          /\ events' = [events EXCEPT ![e] =
                 [@ EXCEPT !.failedCall = "repos.getLatestRelease",
                           !.pc = "listTags"]]
    /\ UNCHANGED <<pulls, comments, releases, tags, writes, clock, fvars>>

\* getCurrentVersion, repos.listTags returns.  The outer catch block
\* takes an error of the call, logs it and returns '0.0.0'.
ListTags(e) ==
    /\ events[e].pc = "listTags"
    /\ \/ events' = [events EXCEPT ![e] =
              IF Len(tags) > 0
              THEN Resume(@, StripPrefix(tags[1], events[e].config.release.prefix))
              ELSE Resume(@, "0.0.0")]
       \/ /\ Failures < MaxFailures
          /\ Len(tags) > 0
          /\ events' = [events EXCEPT ![e] =
                 Resume([@ EXCEPT !.failedCall = "repos.listTags"], "0.0.0")]
    /\ UNCHANGED <<pulls, comments, releases, tags, writes, clock, fvars>>

\* updateStagingToReleasePR, pulls.create returns.  The repository refuses
\* a second open pull request for the same pair of branches.  The pull
\* request is created without a body and without the draft flag.
CreatePR(e) ==
    /\ events[e].pc = "createPR"
    /\ LET ev == events[e]
           head == ev.config.branches.staging
           base == ev.config.branches.release
           number == 10 + Len(pulls)
       IN  IF Len(listPulls(head, base, Len(pulls))) > 0
           THEN /\ events' = [events EXCEPT ![e] =
                       Throw(@, "Validation Failed: a pull request already exists")]
                /\ UNCHANGED <<pulls, writes>>
           ELSE /\ pulls' = Append(pulls,
                       [number |-> number,
                        title |-> "Updating " \o ev.config.release.prefix
                                  \o ev.currentVersion,
                        body |-> "", head |-> head, base |-> base,
                        state |-> "open", draft |-> FALSE, merged |-> FALSE])
                /\ writes' = Append(writes, Write(e, "createPR", number))
                /\ events' = [events EXCEPT ![e].prToUpdate = number,
                                            ![e].created = TRUE,
                                            ![e].pc = "getBody"]
    /\ UNCHANGED <<comments, releases, tags, clock, fvars>>

\* updatePRWithAISummary, pulls.get returns: the new body is computed from
\* the body fetched, and pulls.update is called with it.
GetBody(e) ==
    /\ events[e].pc = "getBody"
    /\ LET prBody == pulls[PullIndex(events[e].prToUpdate)].body
       IN  events' = [events EXCEPT ![e].prBody = prBody,
                                    ![e].newBody = updatedBody(prBody, events[e].aiSummary,
                                                               events[e].payload, clock),
                                    ![e].fetchedAt = Len(writes),
                                    ![e].pc = "updateBody"]
    /\ UNCHANGED <<pulls, comments, releases, tags, writes, clock, fvars>>

\* UpdateBody as a write that merges into the body as it is when the write
\* arrives, not into the body fetched
UpdateBodyRefetched(e) ==
    /\ events[e].pc = "updateBody"
    /\ pulls' = [pulls EXCEPT ![PullIndex(events[e].prToUpdate)].body =
                    updatedBody(@, events[e].aiSummary, events[e].payload, clock)]
    /\ writes' = Append(writes, Write(e, "body", events[e].prToUpdate))
    /\ events' = [events EXCEPT ![e].wroteAt = Len(writes) + 1,
                                ![e].pc = "createComment"]
    /\ UNCHANGED <<comments, releases, tags, clock, fvars>>

\* UpdateBody followed by updatePRTitle at once, without addSummaryComment
UpdateBodyThenTitle(e) ==
    /\ events[e].pc = "updateBody"
    /\ pulls' = [pulls EXCEPT ![PullIndex(events[e].prToUpdate)].body = events[e].newBody]
    /\ writes' = Append(writes, Write(e, "body", events[e].prToUpdate))
    /\ events' = [events EXCEPT ![e] =
                     [@ EXCEPT !.wroteAt = Len(writes) + 1,
                               !.pc = IF AIEnabled(events[e]) THEN "versionType"
                                      ELSE "getLatestRelease",
                               !.resume = "updateTitle"]]
    /\ UNCHANGED <<comments, releases, tags, clock, fvars>>

\* updatePRWithAISummary, pulls.update returns: the body is written.
UpdateBody(e) ==
    /\ events[e].pc = "updateBody"
    /\ pulls' = [pulls EXCEPT ![PullIndex(events[e].prToUpdate)].body = events[e].newBody]
    /\ writes' = Append(writes, Write(e, "body", events[e].prToUpdate))
    /\ events' = [events EXCEPT ![e].wroteAt = Len(writes) + 1,
                                ![e].pc = "createComment"]
    /\ UNCHANGED <<comments, releases, tags, clock, fvars>>

\* StartTitle with callOpenAI returning null although AI is enabled
StartTitleDisabled(ev) ==
    [ev EXCEPT !.versionCall = "disabled",
               !.versionType = "PATCH",
               !.summary = DEFAULT_SUMMARY,
               !.pc = "getLatestRelease", !.resume = "updateTitle"]

\* updatePRTitle up to the completion call of callOpenAI: the pull request
\* is fetched for the text of the prompt only; when callOpenAI returns null
\* the defaults are used.
StartTitle(ev) ==
    IF AIEnabled(ev) THEN [ev EXCEPT !.pc = "versionType"]
    ELSE [ev EXCEPT !.versionCall = "disabled",
                    !.versionType = "PATCH",
                    !.summary = DEFAULT_SUMMARY,
                    !.pc = "getLatestRelease", !.resume = "updateTitle"]

\* addSummaryComment, issues.createComment returns: the comment is posted,
\* and updatePRTitle starts; or the call fails, and nothing on the way to
\* the handler catches the error.
CreateComment(e) ==
    /\ events[e].pc = "createComment"
    /\ \/ /\ comments' = Append(comments,
                 [issue_number |-> events[e].prToUpdate,
                  body |-> commentBody(events[e].payload, events[e].aiSummary)])
          /\ writes' = Append(writes, Write(e, "comment", events[e].prToUpdate))
          /\ events' = [events EXCEPT ![e] = StartTitle(@)]
       \/ /\ Failures < MaxFailures
          /\ events' = [events EXCEPT ![e] =
                 Throw([@ EXCEPT !.failedCall = "issues.createComment"], "HttpError")]
          /\ UNCHANGED <<comments, writes>>
    /\ UNCHANGED <<pulls, releases, tags, clock, fvars>>

\* The version-type completion returns: with a text, which is parsed, with
\* no content, or the call fails; callOpenAI throws in the last two cases
\* and nothing on the way to the handler catches the error.
VersionTypeReturns(e) ==
    /\ events[e].pc = "versionType"
    /\ \/ \E response \in VersionResponses(events[e].payload) :
            events' = [events EXCEPT ![e] =
                [@ EXCEPT !.versionCall = "text",
                          !.response = response,
                          !.versionType = versionTypeOf(response),
                          !.summary = oneLineOf(response),
                          !.pc = "getLatestRelease", !.resume = "updateTitle"]]
       \/ events' = [events EXCEPT ![e] =
                Throw([@ EXCEPT !.versionCall = "empty"], "No response from OpenAI")]
       \/ events' = [events EXCEPT ![e] =
                Throw([@ EXCEPT !.versionCall = "error"], "OpenAI request failed")]
    /\ UNCHANGED <<pulls, comments, releases, tags, writes, clock, fvars>>

\* updatePRTitleWithInfo, pulls.update returns: the title is written, the
\* feature stage returns and the handler goes on to Case 2; or the call
\* fails, and nothing on the way to the handler catches the error.
UpdateTitle(e) ==
    /\ events[e].pc = "updateTitle"
    /\ \/ /\ pulls' = [pulls EXCEPT ![PullIndex(events[e].prToUpdate)].title =
                          newTitle(events[e].versionType, events[e].config.release.prefix,
                                   events[e].currentVersion, events[e].summary)]
          /\ writes' = Append(writes, Write(e, "title", events[e].prToUpdate))
          /\ events' = [events EXCEPT ![e] = Case2(@)]
       \/ /\ Failures < MaxFailures
          /\ events' = [events EXCEPT ![e] =
                 Throw([@ EXCEPT !.failedCall = "pulls.update"], "HttpError")]
          /\ UNCHANGED <<pulls, writes>>
    /\ UNCHANGED <<comments, releases, tags, clock, fvars>>

\* GenerateAISummary with the error of the completion thrown to the handler
GenerateAISummaryThrowing(e) ==
    /\ events[e].pc = "generateAISummary"
    /\ \E outcome \in {"text", "error"} :
        events' = [events EXCEPT ![e] =
            IF outcome = "text"
            THEN [@ EXCEPT !.notesCall = outcome,
                           !.aiSummary = Trim(RELEASE_SUMMARY),
                           !.notes = formatReleaseNotes(
                               events[e].payload.body, events[e].versionType,
                               Trim(RELEASE_SUMMARY), clock),
                           !.pc = "createRelease"]
            ELSE Throw([@ EXCEPT !.notesCall = outcome], "OpenAI request failed")]
    /\ UNCHANGED <<pulls, comments, releases, tags, writes, clock, fvars>>

\* generateAISummary returns the text of the completion, trimmed, or, when
\* the call fails or has no content, its fallback; formatReleaseNotes
\* builds the notes and repos.createRelease is called.
GenerateAISummary(e) ==
    /\ events[e].pc = "generateAISummary"
    /\ \E outcome \in {"text", "error"} :
        LET summary == IF outcome = "text" THEN Trim(RELEASE_SUMMARY)
                       ELSE FALLBACK_SUMMARY
        IN  events' = [events EXCEPT ![e].notesCall = outcome,
                                     ![e].aiSummary = summary,
                                     ![e].notes = formatReleaseNotes(
                                         events[e].payload.body, events[e].versionType,
                                         summary, clock),
                                     ![e].pc = "createRelease"]
    /\ UNCHANGED <<pulls, comments, releases, tags, writes, clock, fvars>>

\* CreateRelease with the error of the repository swallowed: the handler
\* goes on to the completion comment
CreateReleaseSwallowed(e) ==
    /\ events[e].pc = "createRelease"
    /\ LET version == events[e].version
       IN  IF \E i \in 1..Len(releases) : releases[i].tag_name = version
           THEN /\ events' = [events EXCEPT ![e].pc = "releaseComment"]
                /\ UNCHANGED <<releases, tags, writes>>
           ELSE /\ releases' = Append(releases, Release(version, events[e].notes))
                /\ tags' = IF \E i \in 1..Len(tags) : tags[i] = version
                           THEN tags ELSE <<version>> \o tags
                /\ writes' = Append(writes, Write(e, "release", version))
                /\ events' = [events EXCEPT ![e].pc = "releaseComment"]
    /\ UNCHANGED <<pulls, comments, clock, fvars>>

\* CreateRelease as a call that replaces the release of the tag when there
\* is one
CreateReleaseReplacing(e) ==
    /\ events[e].pc = "createRelease"
    /\ LET version == events[e].version
       IN  /\ releases' =
                 IF \E i \in 1..Len(releases) : releases[i].tag_name = version
                 THEN [i \in 1..Len(releases) |->
                          IF releases[i].tag_name = version
                          THEN Release(version, events[e].notes) ELSE releases[i]]
                 ELSE Append(releases, Release(version, events[e].notes))
           /\ tags' = IF \E i \in 1..Len(tags) : tags[i] = version
                      THEN tags ELSE <<version>> \o tags
           /\ writes' = Append(writes, Write(e, "release", version))
           /\ events' = [events EXCEPT ![e].pc = "releaseComment"]
    /\ UNCHANGED <<pulls, comments, clock, fvars>>

\* repos.createRelease returns.  The repository refuses a second release
\* for a tag; the error is logged and thrown again.
CreateRelease(e) ==
    /\ events[e].pc = "createRelease"
    /\ LET version == events[e].version
       IN  IF \E i \in 1..Len(releases) : releases[i].tag_name = version
           THEN /\ events' = [events EXCEPT ![e] =
                       Throw(@, "Validation Failed: already_exists")]
                /\ UNCHANGED <<releases, tags, writes>>
           ELSE /\ releases' = Append(releases, Release(version, events[e].notes))
                /\ tags' = IF \E i \in 1..Len(tags) : tags[i] = version
                           THEN tags ELSE <<version>> \o tags
                /\ writes' = Append(writes, Write(e, "release", version))
                /\ events' = [events EXCEPT ![e].pc = "releaseComment"]
    /\ UNCHANGED <<pulls, comments, clock, fvars>>

\* ReleaseComment that also marks the title of the pull request
ReleaseCommentRetitling(e) ==
    /\ events[e].pc = "releaseComment"
    /\ comments' = Append(comments,
           [issue_number |-> events[e].payload.number,
            body |-> ":tada: Release [" \o events[e].version \o "](r/"
                     \o events[e].version \o ") has been published!"])
    /\ pulls' = [pulls EXCEPT ![PullIndex(events[e].payload.number)].title =
                    "[released] " \o @]
    /\ writes' = Append(Append(writes, Write(e, "releaseComment", events[e].payload.number)),
                        Write(e, "title", events[e].payload.number))
    /\ events' = [events EXCEPT ![e].pc = "done"]
    /\ UNCHANGED <<releases, tags, clock, fvars>>

\* issues.createComment returns: the release is announced on the pull
\* request.  (":tada:" stands for the emoji of the source.)
ReleaseComment(e) ==
    /\ events[e].pc = "releaseComment"
    /\ comments' = Append(comments,
           [issue_number |-> events[e].payload.number,
            body |-> ":tada: Release [" \o events[e].version \o "](r/"
                     \o events[e].version \o ") has been published!"])
    /\ writes' = Append(writes, Write(e, "releaseComment", events[e].payload.number))
    /\ events' = [events EXCEPT ![e].pc = "done"]
    /\ UNCHANGED <<pulls, releases, tags, clock, fvars>>

Next ==
    \/ Deliver
    \/ MergeStagingToRelease
    \/ \E e \in 1..Len(events) : ProbotHandler(e)
    \/ \E e \in 1..Len(events) : FeatureSummaryReturns(e)
    \/ \E e \in 1..Len(events) : ListPRs(e)
    \/ \E e \in 1..Len(events) : ListPRsRetry(e)
    \/ \E e \in 1..Len(events) : GetLatestRelease(e)
    \/ \E e \in 1..Len(events) : ListTags(e)
    \/ \E e \in 1..Len(events) : CreatePR(e)
    \/ \E e \in 1..Len(events) : GetBody(e)
    \/ \E e \in 1..Len(events) : UpdateBody(e)
    \/ \E e \in 1..Len(events) : CreateComment(e)
    \/ \E e \in 1..Len(events) : VersionTypeReturns(e)
    \/ \E e \in 1..Len(events) : UpdateTitle(e)
    \/ \E e \in 1..Len(events) : GenerateAISummary(e)
    \/ \E e \in 1..Len(events) : CreateRelease(e)
    \/ \E e \in 1..Len(events) : ReleaseComment(e)

Spec == Init /\ [][Next]_vars

(***************************************************************************)
(* SpecCalls: the pure functions of the handlers, each applied to          *)
(* arguments drawn from a bounded set.                                     *)
(***************************************************************************)

\* titles a person may have given the pull request from staging to the
\* release branch before merging it
TitleWords == {"MAJOR", "MINOR", "PATCH", "minor", "Patch", "HOTFIX"}
TitleKeywords == {" Release: ", " release: ", " Release "}
TitlePrefixes == {"v", "V", "", "rel-"}
TitleNumbers == {"2.0.0", "1.5.10", "1.5", "1.2.3.4", "01.02.03", "1.x.0"}
TitleEnds == {": Breaking API change", ":", "", " and more"}

Titles ==
    {w \o k \o p \o n \o t : w \in TitleWords, k \in TitleKeywords,
                             p \in TitlePrefixes, n \in TitleNumbers, t \in TitleEnds}
    \cup {"Release something", "Updating v1.4.2"}

\* this.config.release?.prefix
VersionPrefixes == {"v", "rel-"}

\* the check of the title in handleStagingMergedToRelease and the tag name
\* it computes for a title that matched
TitleCall ==
    /\ NoCall
    /\ \E title \in Titles, versionPrefix \in VersionPrefixes :
        LET m == titleMatch(title)
        IN  call' = [op |-> "titleMatch", title |-> title,
                     versionPrefix |-> versionPrefix, match |-> m,
                     version |-> IF m.found
                                 THEN releaseVersion(m.versionFromTitle, versionPrefix)
                                 ELSE ""]
    /\ UNCHANGED <<mvars, svars>>

\* the components a version in a tag may have
VersionParts == {0, 1, 9, 10}

\* one to three components
PartSeqs == UNION {[1..n -> VersionParts] : n \in 1..3}

\* what stands before the number in a tag name
TagPrefixes == {"", "v", "rel-", "release/"}

\* the number of a tag name, written out
Dotted(parts) == Join([i \in 1..Len(parts) |-> NatToString(parts[i])], ".")

\* getCurrentVersion on the tag name of the latest release, or on the name
\* of the newest tag, and calculateNewVersion on its result
VersionCall ==
    /\ NoCall
    /\ \E parts \in PartSeqs, tagPrefix \in TagPrefixes,
          versionPrefix \in VersionPrefixes,
          from \in {"release", "tag"}, releaseType \in {"major", "minor", "patch"} :
        LET name == tagPrefix \o Dotted(parts)
            currentVersion == IF from = "release" THEN StripPrefix(name, "v")
                              ELSE StripPrefix(name, versionPrefix)
        IN  call' = [op |-> "calculateNewVersion", parts |-> parts,
                     tagPrefix |-> tagPrefix, versionPrefix |-> versionPrefix,
                     from |-> from, currentVersion |-> currentVersion,
                     releaseType |-> releaseType,
                     result |-> calculateNewVersion(currentVersion, releaseType)]
    /\ UNCHANGED <<mvars, svars>>

\* a summary with a bullet that quotes a dollar sign and names the "$&"
\* placeholder
S_DOLLAR ==
    "New Features\n- Escape '$' and $& in templates\n\nBugs / Improvements\n- Fix crash"
S_FEATURE_ONLY == "New Features\n- Add export"

\* updatePRWithAISummary: the body written for a body fetched, a summary
\* and the pull request of the event
BodyCall ==
    /\ NoCall
    /\ \E prBody \in {"", HAND_MADE_BODY, DRAFT_BODY},
          aiSummary \in {S_LOGIN, S_CRASH, S_DOLLAR, S_FEATURE_ONLY},
          sourcePR \in {PR_LOGIN, PR_CRASH} :
        call' = [op |-> "updatePRWithAISummary", prBody |-> prBody,
                 aiSummary |-> aiSummary, sourcePR |-> sourcePR,
                 result |-> updatedBody(prBody, aiSummary, sourcePR, clock)]
    /\ UNCHANGED <<mvars, svars>>

\* a summary with the two headings the other way round
S_REVERSED == "Bugs / Improvements\n- Fix crash\n\nNew Features\n- Add login"
\* a summary with no heading
S_NO_HEADING == "- Add login\n* Fix crash"
\* a summary with starred bullets and an empty second section
S_STARRED == "## New Features\n* Add login\n* Add export\n\n## Bugs / Improvements\n"

Summaries ==
    {"", "  \n", S_LOGIN, S_CRASH, S_DOLLAR, S_FEATURE_ONLY, S_REVERSED,
     S_NO_HEADING, S_STARRED}

\* parseSummary(aiSummary)
ParseCall ==
    /\ NoCall
    /\ \E aiSummary \in Summaries :
        call' = [op |-> "parseSummary", aiSummary |-> aiSummary,
                 result |-> parseSummary(aiSummary)]
    /\ UNCHANGED <<mvars, svars>>

\* what getCurrentVersion may return: versions, and a tag whose prefix it
\* did not strip
CurrentVersions == {"0.0.0", "1.4.2", "1.9", "rel-1.9.10"}

\* the title updatePRTitleWithInfo writes, read by
\* handleStagingMergedToRelease when the pull request is merged
TitleRoundTripCall ==
    /\ NoCall
    /\ \E versionType \in {"MAJOR", "MINOR", "PATCH"},
          versionPrefix \in VersionPrefixes,
          currentVersion \in CurrentVersions,
          summary \in {"Add login", "Fix: crash on start"} :
        LET title == newTitle(versionType, versionPrefix, currentVersion, summary)
            m == titleMatch(title)
        IN  call' = [op |-> "titleRoundTrip", versionType |-> versionType,
                     versionPrefix |-> versionPrefix,
                     currentVersion |-> currentVersion, title |-> title,
                     match |-> m,
                     version |-> IF m.found
                                 THEN releaseVersion(m.versionFromTitle, versionPrefix)
                                 ELSE ""]
    /\ UNCHANGED <<mvars, svars>>

MaxListed == 3

\* what pulls.list may return: up to MaxListed open pull requests, each a
\* draft or not
Listings ==
    UNION {[1..n -> BOOLEAN] : n \in 0..MaxListed}

Listed(flags, first) ==
    [i \in 1..Len(flags) |-> PullRequest(first - i, "Release", "", flags[i])]

\* findStagingToReleasePR on the results of its two listings; <<>> stands
\* for undefined
findStagingToReleasePR(prs, simplePrs) ==
    IF Len(prs) = 0
    THEN IF Len(simplePrs) > 0 THEN <<selectPR(simplePrs)>> ELSE <<>>
    ELSE <<selectPR(prs)>>

FindCall ==
    /\ NoCall
    /\ \E flags \in Listings, simpleFlags \in Listings :
        LET prs == Listed(flags, 20)
            simplePrs == Listed(simpleFlags, 30)
        IN  call' = [op |-> "findStagingToReleasePR", prs |-> prs,
                     simplePrs |-> simplePrs,
                     result |-> findStagingToReleasePR(prs, simplePrs)]
    /\ UNCHANGED <<mvars, svars>>

InitCalls ==
    /\ NoMerge
    /\ NoRepository
    /\ NoCall

NextCalls ==
    \/ TitleCall
    \/ VersionCall
    \/ BodyCall
    \/ ParseCall
    \/ TitleRoundTripCall
    \/ FindCall

SpecCalls == InitCalls /\ [][NextCalls]_vars

(***************************************************************************)
(* Reading a document as the specification describes it: lines, a section  *)
(* from each line that starts with "## " to the next such line.            *)
(***************************************************************************)

RECURSIVE Lines(_)
\* the lines of a text (text.split("\n"))
Lines(text) ==
    LET nl == IndexOf(text, "\n", 0)
    IN  IF nl = -1 THEN <<text>>
        ELSE <<Substring(text, 0, nl)>> \o Lines(SubstringFrom(text, nl + 1))

IsHeaderLine(line) == StartsWithAt(line, "## ", 0)

IsCommentLine(line) ==
    /\ StartsWithAt(line, "<!--", 0)
    /\ Len(line) >= 7
    /\ SubstringFrom(line, Len(line) - 3) = "-->"

\* the number of occurrences of p in s
Occurrences(s, p) ==
    Cardinality({k \in 0..(Len(s) - Len(p)) : StartsWithAt(s, p, k)})

\* index of the first line equal to header, 0 if there is none
HeaderLineIndex(ls, header) ==
    IF \E i \in 1..Len(ls) : ls[i] = header
    THEN CHOOSE i \in 1..Len(ls) :
            ls[i] = header /\ \A j \in 1..(i - 1) : ls[j] # header
    ELSE 0

\* Where the specification puts new bullets: below the header line and
\* below a placeholder comment that directly follows it.
ExpectedInsertIndex(ls, header) ==
    LET h == HeaderLineIndex(ls, header)
    IN  IF h < Len(ls) /\ IsCommentLine(ls[h + 1]) THEN h + 1 ELSE h

\* ls with the bullets inserted after line number at
InsertLines(ls, at, bullets) ==
    SubSeq(ls, 1, at) \o bullets \o SubSeq(ls, at + 1, Len(ls))

\* the section (header line index, 0 for the text before the first header)
\* that line i of ls belongs to
SectionOf(ls, i) ==
    LET hs == {j \in 1..i : IsHeaderLine(ls[j])}
    IN  IF hs = {} THEN 0 ELSE CHOOSE j \in hs : \A k \in hs : k <= j

RECURSIVE SelectLines(_, _, _)
\* the lines of ls from index i on that are not blank and belong to a
\* section whose header is not the given one, each with the ordinal of the
\* section it is in
SelectLines(ls, header, i) ==
    IF i > Len(ls) THEN <<>>
    ELSE LET sec == SectionOf(ls, i)
             ord == Cardinality({j \in 1..i : IsHeaderLine(ls[j]) /\ ls[j] # header})
         IN  IF ls[i] = "" \/ (sec # 0 /\ ls[sec] = header)
             THEN SelectLines(ls, header, i + 1)
             ELSE <<<<ord, ls[i]>>>> \o SelectLines(ls, header, i + 1)

\* The content of every section other than the one with the given header:
\* its header, bullets and other text, in order.
OtherSections(text, header) == SelectLines(Lines(text), header, 1)

IsPrefix(a, b) == Len(a) <= Len(b) /\ SubSeq(b, 1, Len(a)) = a

FEATURES_HEADER == "## " \o FEATURES_SECTION
BUGS_HEADER == "## " \o BUGS_SECTION

(***************************************************************************)
(* Claims about addNewBulletsToBody, checked under SpecMerge.              *)
(***************************************************************************)

\* the last merge put bullets into one section only, and both sections
\* existed before it
MergedOnlyInto(header) ==
    /\ mCount > 0
    /\ HeaderLineIndex(Lines(mPrev), FEATURES_HEADER) # 0
    /\ HeaderLineIndex(Lines(mPrev), BUGS_HEADER) # 0
    /\ IF header = FEATURES_HEADER
       THEN mFeatures # <<>> /\ mBugs = <<>>
       ELSE mFeatures = <<>> /\ mBugs # <<>>

NewBullets(header) == IF header = FEATURES_HEADER THEN mFeatures ELSE mBugs

\* C4: merging into a section that exists inserts the new bullets, in
\* order, directly below the header line and below a placeholder comment
\* that leads the section, above every existing bullet; all other lines of
\* the document stay as they were, in the same order.
C4_InsertedBelowHeader ==
    \A header \in {FEATURES_HEADER, BUGS_HEADER} :
        MergedOnlyInto(header) =>
            Lines(mBody) =
                InsertLines(Lines(mPrev),
                            ExpectedInsertIndex(Lines(mPrev), header),
                            NewBullets(header))

\* C5: merging into section H leaves every other section, and the text
\* before the first header, as it was.
C5_OtherSectionsUnchanged ==
    \A header \in {FEATURES_HEADER, BUGS_HEADER} :
        MergedOnlyInto(header) =>
            IsPrefix(OtherSections(mPrev, header), OtherSections(mBody, header))

\* C6 as claimed: merging two empty lists returns the document unchanged,
\* whether or not it has the section headers.
C6_EmptyMergeIsNoOp ==
    (mCount > 0 /\ mFeatures = <<>> /\ mBugs = <<>>) => mBody = mPrev

\* the text appended for a section the document does not mention
MissingSection(text, section, placeholder) ==
    IF Occurrences(text, "## " \o section) = 0
    THEN "\n\n## " \o section \o "\n" \o placeholder \o "\n"
    ELSE ""

\* C6 amended: merging two empty lists changes nothing but to append, for
\* each of the two sections the document does not contain, the section's
\* header and placeholder comment (features first); a document that has
\* both headers is returned unchanged.
C6_EmptyMergeOnlyCreatesSections ==
    (mCount > 0 /\ mFeatures = <<>> /\ mBugs = <<>>) =>
        mBody = mPrev
                \o MissingSection(mPrev, FEATURES_SECTION, FEATURES_PLACEHOLDER)
                \o MissingSection(mPrev, BUGS_SECTION, BUGS_PLACEHOLDER)

\* C6 witness: an empty merge into a document that has an entry but not
\* the features header has returned a longer document, with the header.
C6_Witness ==
    /\ mCount = 1
    /\ mFeatures = <<>>
    /\ mBugs = <<>>
    /\ Includes(mPrev, OLD_BULLET)
    /\ Occurrences(mPrev, FEATURES_HEADER) = 0
    /\ Occurrences(mBody, FEATURES_HEADER) = 1
    /\ mBody # mPrev

\* C7: a section that is absent is created with its placeholder comment,
\* and a merge never duplicates a header: a document with each header at
\* most once has, after the merge, each header exactly once.
C7_HeadersUnique ==
    (/\ mCount > 0
     /\ Occurrences(mPrev, FEATURES_HEADER) <= 1
     /\ Occurrences(mPrev, BUGS_HEADER) <= 1) =>
        /\ Occurrences(mBody, FEATURES_HEADER) = 1
        /\ Occurrences(mBody, BUGS_HEADER) = 1
        /\ Occurrences(mPrev, FEATURES_HEADER) = 0 =>
               Includes(mBody, FEATURES_HEADER \o "\n" \o FEATURES_PLACEHOLDER \o "\n")
        /\ Occurrences(mPrev, BUGS_HEADER) = 0 =>
               Includes(mBody, BUGS_HEADER \o "\n" \o BUGS_PLACEHOLDER \o "\n")

(***************************************************************************)
(* Claims about the handler, checked under Spec.                           *)
(***************************************************************************)

\* the elements of a sequence
Range(seq) == {seq[i] : i \in 1..Len(seq)}

\* the attributed bullets the invocation adds to the body
FeatureBulletsOf(ev) == Range(withAttribution(parseSummary(ev.aiSummary)[1], ev.payload))
BugBulletsOf(ev) == Range(withAttribution(parseSummary(ev.aiSummary)[2], ev.payload))
BulletsOf(ev) == FeatureBulletsOf(ev) \cup BugBulletsOf(ev)

\* the body of the pull request with the given number
BodyOf(number) == pulls[PullIndex(number)].body

\* the positions in writes, after position k, of the body writes to the
\* pull request with the given number
BodyWritesAfter(number, k) ==
    {i \in (k + 1)..Len(writes) : writes[i].op = "body" /\ writes[i].target = number}

\* the invocation ran the feature stage to its end, without an error
FeatureDone(e) ==
    /\ events[e].ranFeature
    /\ events[e].pc = "done"
    /\ events[e].wroteAt > 0

\* the handler has read the event and, if it was a merge, loaded the
\* configuration
Handled(e) == events[e].pc # "handler" /\ events[e].payload.merged

IsFeaturePair(ev) ==
    ev.payload.base = ev.config.branches.staging
    /\ ev.payload.head # ev.config.branches.release

IsReleasePair(ev) ==
    ev.payload.base = ev.config.branches.release
    /\ ev.payload.head = ev.config.branches.staging

DispatchedByPair(e) ==
    /\ events[e].ranFeature <=> IsFeaturePair(events[e])
    /\ events[e].ranRelease <=> IsReleasePair(events[e])
    /\ ~(events[e].ranFeature /\ events[e].ranRelease)

FetchedBeforeEitherWrote(a, b) ==
    /\ a # b
    /\ FeatureDone(a) /\ FeatureDone(b)
    /\ events[a].prToUpdate = events[b].prToUpdate
    /\ events[a].fetchedAt < events[b].wroteAt
    /\ events[b].fetchedAt < events[a].wroteAt
    /\ events[a].wroteAt < events[b].wroteAt
    /\ BodyWritesAfter(events[b].prToUpdate, events[b].wroteAt) = {}

\* C2: when two feature events fetch the draft body before either writes
\* it and both complete, the body is the one the later writer computed:
\* each bullet of the later writer is in it once more than in the body
\* fetched, and the bullets of the earlier writer were not added.
C2_LastBodyWriteWins ==
    \A a, b \in 1..Len(events) :
        FetchedBeforeEitherWrote(a, b) =>
            /\ BodyOf(events[b].prToUpdate) = events[b].newBody
            /\ \A bullet \in BulletsOf(events[a]) \cup BulletsOf(events[b]) :
                   Occurrences(BodyOf(events[b].prToUpdate), bullet)
                   = Occurrences(events[b].prBody, bullet)
                     + (IF bullet \in BulletsOf(events[b]) THEN 1 ELSE 0)

\* C2 witness: two events for different pull requests raced, and the body
\* has the bullets of the later writer and none of the earlier one.
C2_Witness ==
    \E a, b \in 1..Len(events) :
        /\ FetchedBeforeEitherWrote(a, b)
        /\ events[a].payload.number # events[b].payload.number
        /\ \A bullet \in BulletsOf(events[b]) :
               Includes(BodyOf(events[b].prToUpdate), bullet)
        /\ \A bullet \in BulletsOf(events[a]) :
               ~Includes(BodyOf(events[b].prToUpdate), bullet)
        /\ BulletsOf(events[a]) # {}

\* no invocation is running, and none ran while another was running
AllSequential ==
    \A e \in 1..Len(events) : ~Running(events[e]) /\ ~events[e].overlapped

\* two feature events, a delivered before b, both run to the end on the same
\* pull request, whose body nothing else wrote since a fetched it
ProcessedInTurn(a, b) ==
    /\ a < b
    /\ FeatureDone(a) /\ FeatureDone(b)
    /\ events[a].prToUpdate = events[b].prToUpdate
    /\ BodyWritesAfter(events[a].prToUpdate, events[a].fetchedAt)
       = {events[a].wroteAt, events[b].wroteAt}

\* C3: when feature events are processed one after another and each one
\* completes, the body holds the bullets of all of them, and in each
\* section the bullets of a later event are above those of an earlier one.
C3_SequentialEventsAccumulate ==
    AllSequential =>
        \A a, b \in 1..Len(events) :
            (ProcessedInTurn(a, b)
             /\ events[a].payload.number # events[b].payload.number) =>
                LET body == BodyOf(events[b].prToUpdate)
                IN  /\ \A x \in BulletsOf(events[a]) \cup BulletsOf(events[b]) :
                           Includes(body, x)
                    /\ \A x \in FeatureBulletsOf(events[a]), y \in FeatureBulletsOf(events[b]) :
                           IndexOf(body, y, 0) < IndexOf(body, x, 0)
                    /\ \A x \in BugBulletsOf(events[a]), y \in BugBulletsOf(events[b]) :
                           IndexOf(body, y, 0) < IndexOf(body, x, 0)

\* the number of comments on the pull request that have the given body
CommentCount(number, body) ==
    Cardinality({i \in 1..Len(comments) :
                    comments[i].issue_number = number /\ comments[i].body = body})

\* C8: when the same feature event is processed twice in sequence, every
\* bullet of the event is in the body twice more than before, and the
\* summary comment of the event was posted once by each of the two runs.
C8_NoDeduplication ==
    AllSequential =>
        \A a, b \in 1..Len(events) :
            (ProcessedInTurn(a, b) /\ events[a].payload = events[b].payload) =>
                /\ \A bullet \in BulletsOf(events[b]) :
                       Occurrences(BodyOf(events[b].prToUpdate), bullet)
                       = Occurrences(events[a].prBody, bullet) + 2
                /\ \E i, j \in 1..Len(writes) :
                       /\ writes[i] = Write(a, "comment", events[a].prToUpdate)
                       /\ writes[j] = Write(b, "comment", events[b].prToUpdate)
                /\ CommentCount(events[b].prToUpdate,
                                commentBody(events[b].payload, events[b].aiSummary)) >= 2

\* C8 witness: an event was delivered again after it had been processed,
\* and the body holds a bullet of it twice.
C8_Witness ==
    /\ AllSequential
    /\ \E a, b \in 1..Len(events) :
        /\ ProcessedInTurn(a, b)
        /\ events[a].payload = events[b].payload
        /\ \E bullet \in BulletsOf(events[b]) :
               Occurrences(BodyOf(events[b].prToUpdate), bullet) = 2

\* the remote writes the invocation issued
WritesOf(e) == {i \in 1..Len(writes) : writes[i].event = e}

\* C9: when the feature summary is unavailable (the call fails, returns no
\* content, or AI is disabled) the event ends normally, no error leaves the
\* handler, and the invocation writes nothing.
C9_UnavailableSummarySkips ==
    \A e \in 1..Len(events) :
        events[e].summaryCall \in {"error", "empty", "disabled"} =>
            /\ events[e].pc = "done"
            /\ events[e].error = ""
            /\ WritesOf(e) = {}

\* the version-type call of the invocation failed, or its answer matches
\* neither VERSION_TYPE nor SUMMARY
ClassificationFailed(ev) ==
    \/ ev.versionCall \in {"error", "empty"}
    \/ ev.versionCall = "text"
       /\ versionMatch(ev.response) = "" /\ ~summaryMatch(ev.response).found

\* C10: when the version-type call fails or its answer cannot be parsed,
\* no error leaves the event, and the title is written with PATCH and
\* "New features and improvements".
C10_TitleDefaultsOnFailure ==
    \A e \in 1..Len(events) :
        ClassificationFailed(events[e]) =>
            /\ events[e].pc # "failed"
            /\ events[e].pc = "done" =>
                   /\ events[e].versionType = "PATCH"
                   /\ events[e].summary = DEFAULT_SUMMARY
                   /\ \E i \in WritesOf(e) : writes[i].op = "title"


(***************************************************************************)
(* The release stage                                                       *)
(***************************************************************************)

\* the release stage has acted on the event: the pull request was merged
\* from staging into the release branch
AtReleaseStage(e) ==
    /\ events[e].ranRelease
    /\ events[e].payload.merged
    /\ IsReleasePair(events[e])

FirstDigit(title) == Least({k \in 0..(Len(title) - 1) : IsDigit(CharAt(title, k))})

\* "<BUMP> Release: <version-with-prefix>: <summary>": a bump class in
\* capitals, the configured prefix, three numbers separated by dots, a
\* colon
HasReleaseForm(title, versionPrefix) ==
    \E bump \in {"MAJOR", "MINOR", "PATCH"} :
        LET d == Len(bump \o " Release: " \o versionPrefix)
            a == DigitsEnd(title, d)
            b == DigitsEnd(title, a + 1)
            c == DigitsEnd(title, b + 1)
        IN  /\ StartsWithAt(title, bump \o " Release: " \o versionPrefix, 0)
            /\ a > d /\ CharAt(title, a) = "."
            /\ b > a + 1 /\ CharAt(title, b) = "."
            /\ c > b + 1 /\ CharAt(title, c) = ":"

\* major.minor.patch as the title has it
NumberInTitle(title) ==
    LET d == FirstDigit(title)
        c == DigitsEnd(title, DigitsEnd(title, DigitsEnd(title, d) + 1) + 1)
    IN  Substring(title, d, c)

\* C12: a title is accepted exactly when it has the form
\* "<BUMP> Release: <version-with-prefix>: <summary>" with BUMP one of
\* MAJOR, MINOR, PATCH; for an accepted title the bump class is the one in
\* the title and the tag name of the release is the configured prefix
\* followed by major.minor.patch of the title.
C12_TitleParsing ==
    call.op = "titleMatch"
    => /\ call.match.found <=> HasReleaseForm(call.title, call.versionPrefix)
       /\ call.match.found
          => /\ call.match.versionType \in {"MAJOR", "MINOR", "PATCH"}
             /\ StartsWithAt(call.title, call.match.versionType, 0)
             /\ call.version = call.versionPrefix \o NumberInTitle(call.title)

\* C12, for the two titles the specification gives: the first is accepted
\* with tag v2.0.0, the second is rejected
C12_Examples ==
    /\ call.op = "titleMatch" /\ call.versionPrefix = "v"
       /\ call.title = "MAJOR Release: v2.0.0: Breaking API change"
       => call.match.found /\ call.match.versionType = "MAJOR" /\ call.version = "v2.0.0"
    /\ call.op = "titleMatch" /\ call.title = "Release something"
       => ~call.match.found

\* the candidates findStagingToReleasePR chooses from: the pull requests of
\* the listing that returned any
Candidates == IF Len(call.prs) > 0 THEN call.prs ELSE call.simplePrs

\* C18: when several open pull requests match, the one flagged draft is
\* returned wherever it stands in the listing; when none is flagged draft,
\* the first in listing order is returned; when the listing is empty, the
\* result is absent.
C18_FindDraftDisambiguation ==
    call.op = "findStagingToReleasePR"
    => LET drafts == {i \in 1..Len(Candidates) : Candidates[i].draft}
       IN  /\ Len(Candidates) = 0 => call.result = <<>>
           /\ drafts # {}
              => /\ Len(call.result) = 1
                 /\ call.result[1].draft
                 /\ call.result[1] \in {Candidates[i] : i \in drafts}
                 /\ Cardinality(drafts) = 1
                    => call.result[1] = Candidates[CHOOSE i \in drafts : TRUE]
           /\ drafts = {} /\ Len(Candidates) > 0
              => call.result = <<Candidates[1]>>

\* three open pull requests were listed, only the last of them a draft,
\* and the last was returned
C18_Witness ==
    /\ call.op = "findStagingToReleasePR"
    /\ Len(call.prs) = 3
    /\ ~call.prs[1].draft /\ ~call.prs[2].draft /\ call.prs[3].draft
    /\ call.result = <<call.prs[3]>>

\* the writes of the event with the given operation
WritesWith(e, op) == {i \in WritesOf(e) : writes[i].op = op}

\* repos.createRelease failed for the event
ReleaseCreationFailed(e) == events[e].error = "Validation Failed: already_exists"

\* C13: the completion comment is posted only after the release was
\* created: every completion comment of an event comes after the creation
\* of the release by the same event; when the creation fails, the error
\* leaves the event (it ends failed) and the event posts no completion
\* comment.
C13_CommentOnlyAfterRelease ==
    \A e \in 1..Len(events) :
        /\ \A c \in WritesWith(e, "releaseComment") :
               \E r \in WritesWith(e, "release") : r < c
        /\ events[e].pc = "releaseComment" => WritesWith(e, "release") # {}
        /\ ReleaseCreationFailed(e)
           => /\ events[e].pc = "failed"
              /\ WritesWith(e, "releaseComment") = {}
              /\ WritesWith(e, "release") = {}

\* one event created its release and then posted the comment, and for
\* another the creation of the release failed
C13_Witness ==
    \E a, b \in 1..Len(events) :
        /\ WritesWith(a, "release") # {}
        /\ WritesWith(a, "releaseComment") # {}
        /\ events[a].pc = "done"
        /\ ReleaseCreationFailed(b)

\* the releases with the given tag name
ReleasesOf(tag) == {i \in 1..Len(releases) : releases[i].tag_name = tag}

\* C14: a release record is written once: whatever events were delivered,
\* there is at most one release per tag name, and a release the handlers
\* created is as it was created.
C14_ReleaseWriteOnce ==
    /\ \A i, j \in 1..Len(releases) :
           releases[i].tag_name = releases[j].tag_name => i = j
    /\ \A e \in 1..Len(events) : \A w \in WritesWith(e, "release") :
           \E i \in 1..Len(releases) :
               releases[i] = Release(events[e].version, events[e].notes)

\* the event of a merge from staging into the release branch was delivered
\* twice, and both deliveries have been handled to the end: the first
\* created the release
C14_Witness ==
    /\ Len(events) = 2
    /\ events[1].payload = events[2].payload
    /\ AtReleaseStage(1) /\ AtReleaseStage(2)
    /\ ~Running(events[1]) /\ ~Running(events[2])
    /\ WritesWith(1, "release") # {}
    /\ Cardinality(ReleasesOf(events[2].version)) = 1

(***************************************************************************)
(* The aggregation pull request                                            *)
(***************************************************************************)

CREATE_REFUSED == "Validation Failed: a pull request already exists"

\* pulls.create has been called for the event
IssuedCreate(e) ==
    \/ events[e].pc = "createPR"
    \/ events[e].created
    \/ events[e].error = CREATE_REFUSED

\* C15: a pull request is created only when no open pull request from
\* staging to the release branch existed at the time of the lookup; when
\* one existed, the feature stage updates it and issues no create.
C15_CreateOnlyWhenNoneOpen ==
    \A e \in 1..Len(events) :
        /\ IssuedCreate(e) => events[e].openAtLookup = 0
        /\ events[e].openAtLookup > 0
           => /\ ~IssuedCreate(e)
              /\ events[e].prToUpdate # 0

\* the pull request the event created, as it is now
CreatedBy(e) == pulls[PullIndex(events[e].prToUpdate)]

\* C16: the pull request the feature stage creates is made from the title
\* and body templates of the configuration and is marked as draft, with
\* the staging branch as head and the release branch as base.
C16_CreatedAsDraftFromTemplates ==
    \A e \in 1..Len(events) :
        events[e].created
        => /\ CreatedBy(e).draft
           /\ CreatedBy(e).head = events[e].config.branches.staging
           /\ CreatedBy(e).base = events[e].config.branches.release
           /\ writes[Len(writes)] = Write(e, "createPR", events[e].prToUpdate)
              => /\ Includes(CreatedBy(e).title, " Release: ")
                 /\ Includes(CreatedBy(e).body,
                             events[e].config.pr.featuresSection)

\* the call of pulls.create has returned for the event without a pull
\* request, although the lookup had found the repository without an open
\* one: another event created one in between
LostCreateRace(e) ==
    /\ events[e].summaryCall = "text"
    /\ events[e].openAtLookup = 0
    /\ events[e].pc \notin {"listPRs", "listPRsRetry", "getLatestRelease",
                            "listTags", "createPR"}
    /\ ~events[e].created
    /\ \E f \in 1..Len(events) : f # e /\ events[f].created

\* C17: creation is safe under concurrency: an event that found no open
\* pull request and whose create comes after the create of another event
\* still ends without an error, with its bullets in the body of an open
\* pull request from staging to the release branch.
C17_ConcurrentCreateSafe ==
    \A e \in 1..Len(events) :
        LostCreateRace(e)
        => /\ events[e].error = ""
           /\ events[e].pc = "done"
              => \E i \in 1..Len(pulls) :
                     /\ pulls[i].state = "open"
                     /\ pulls[i].head = events[e].config.branches.staging
                     /\ pulls[i].base = events[e].config.branches.release
                     /\ BulletsOf(events[e]) \subseteq Range(Lines(pulls[i].body))

(***************************************************************************)
(* The order of the steps of the feature stage                             *)
(***************************************************************************)

\* the version for the title is known to the event: the classification
\* call has answered (or AI is disabled) and getCurrentVersion has
\* returned to updatePRTitleWithInfo
VersionComputed(e) ==
    /\ events[e].versionCall \in {"text", "disabled"}
    /\ events[e].pc \notin {"getLatestRelease", "listTags"}

\* the writes of the feature stage for the event
FeatureStageWrites(e) ==
    {i \in WritesOf(e) : writes[i].op \in {"createPR", "body", "comment", "title"}}

\* C19: the feature stage summarizes, merges the bullets into the body,
\* computes the version, and then publishes the title and the comment: the
\* body update is issued before the version is computed, and neither the
\* title update nor the summary comment is issued before the version has
\* been computed.
C19_VersionBeforeTitleAndComment ==
    \A e \in 1..Len(events) :
        /\ VersionComputed(e) => WritesWith(e, "body") # {}
        /\ WritesWith(e, "title") # {} => VersionComputed(e)
        /\ WritesWith(e, "comment") # {} => VersionComputed(e)

\* C19, as the handlers order the steps: the body update, then the summary
\* comment, then the classification call and the reading of the current
\* version, then the title update.  The body update and the summary
\* comment are issued before the version is computed, the title update
\* after it.
C19_BodyCommentVersionTitle ==
    \A e \in 1..Len(events) :
        /\ events[e].summaryCall # "text" => FeatureStageWrites(e) = {}
        /\ \A c \in WritesWith(e, "comment") :
               \E b \in WritesWith(e, "body") : b < c
        /\ events[e].versionCall # "none" \/ VersionComputed(e)
           => /\ WritesWith(e, "body") # {}
              /\ WritesWith(e, "comment") # {}
        /\ \A t \in WritesWith(e, "title") :
               /\ VersionComputed(e)
               /\ \E c \in WritesWith(e, "comment") : c < t

\* an event has gone through the whole feature stage: body, comment and
\* title are written
C19_Witness ==
    \E e \in 1..Len(events) :
        /\ WritesWith(e, "body") # {}
        /\ WritesWith(e, "comment") # {}
        /\ WritesWith(e, "title") # {}
        /\ events[e].versionCall = "text"

(***************************************************************************)
(* The configuration file                                                  *)
(***************************************************************************)

\* C20: without a configuration file the event is processed with the
\* default configuration; with a malformed file the error leaves the
\* handler: processing stops, neither stage runs and nothing is written.
C20_AbsentOrMalformedConfig ==
    \A e \in 1..Len(events) :
        Handled(e)
        => /\ configFile = "absent"
              => /\ events[e].error # "ConfigurationError"
                 /\ events[e].config = DEFAULT_CONFIG
                 /\ DispatchedByPair(e)
           /\ configFile = "malformed"
              => /\ events[e].pc = "failed"
                 /\ events[e].error = "ConfigurationError"
                 /\ ~events[e].ranFeature /\ ~events[e].ranRelease
                 /\ WritesOf(e) = {}

\* the event of a pull request merged into staging was handled in a
\* repository whose configuration file is malformed
C20_Witness ==
    \E e \in 1..Len(events) :
        /\ Handled(e)
        /\ IsFeaturePair(events[e])
        /\ configFile = "malformed"
        /\ events[e].pc = "failed"

\* C21: the configuration an event is processed with is the configuration
\* document of the repository merged with the defaults: the branches and
\* the prefix the document sets are the ones used to classify the event,
\* to find or create the pull request and to build title and tag.
C21_MergedConfigUsed ==
    \A e \in 1..Len(events) :
        Handled(e) /\ configFile = "custom"
        => LET merged == mergeConfigs(DEFAULT_CONFIG, CUSTOM_CONFIG)
           IN  /\ events[e].config = merged
               /\ events[e].ranFeature
                  => /\ events[e].payload.base = merged.branches.staging
                     /\ events[e].payload.head # merged.branches.release
               /\ \A i \in 1..Len(pulls) :
                      pulls[i].number \in {writes[w].target : w \in WritesWith(e, "createPR")}
                      => pulls[i].head = merged.branches.staging

(***************************************************************************)
(* Failures of the repository API                                          *)
(***************************************************************************)

\* C22: a failure of a call of the repository API, other than the release
\* or tag not found, leaves the handler: the event ends failed, and the
\* failure is not turned into another action, such as a failed listing
\* taken for "no pull request" or a failed lookup taken for version 0.0.0.
C22_ApiFailuresPropagate ==
    \A e \in 1..Len(events) :
        events[e].failedCall # ""
        => /\ events[e].pc = "failed"
           /\ events[e].error # ""

\* the event is inside getCurrentVersion
ReadingVersion(ev) == ev.pc \in {"getLatestRelease", "listTags"}

\* C23: when the repository has neither a release nor a tag, the current
\* version is 0.0.0 and the event goes on without an error; when there is
\* a latest release, the current version is its tag without the version
\* prefix.
C23_CurrentVersion ==
    [][\A e \in 1..Len(events) :
           ReadingVersion(events[e]) /\ ~ReadingVersion(events'[e])
           => /\ events'[e].error = ""
              /\ releases = <<>> /\ tags = <<>>
                 => events'[e].currentVersion = "0.0.0"
              /\ releases # <<>>
                 => events'[e].currentVersion =
                        StripPrefix(releases[Len(releases)].tag_name,
                                    events[e].config.release.prefix)]_vars

\* the two category headings without bullets
EMPTY_HEADINGS == "## New Features\n\n## Bugs / Improvements"

Component(i) == IF i <= Len(call.parts) THEN call.parts[i] ELSE 0

\* the version the semver rules give for the components of the tag
BumpedVersion ==
    LET triple == IF call.releaseType = "major" THEN <<Component(1) + 1, 0, 0>>
                  ELSE IF call.releaseType = "minor"
                  THEN <<Component(1), Component(2) + 1, 0>>
                  ELSE <<Component(1), Component(2), Component(3) + 1>>
    IN  Dotted(triple)

\* C25: for every major.minor.patch and bump class the next version
\* follows the semver rules: MAJOR gives (major+1, 0, 0), MINOR gives
\* (major, minor+1, 0), PATCH gives (major, minor, patch+1).
C25_SemverReset ==
    /\ call.op = "calculateNewVersion"
    /\ Len(call.parts) = 3
    /\ call.currentVersion = Dotted(call.parts)
    => call.result = BumpedVersion

\* a minor bump of 1.9.10 gave 1.10.0
C25_Witness ==
    /\ call.op = "calculateNewVersion"
    /\ call.currentVersion = "1.9.10"
    /\ call.releaseType = "minor"
    /\ call.result = "1.10.0"

\* C26: parsing is tolerant: for a tag made of an optional prefix without
\* digits and one to three numbers separated by dots, the prefix is
\* stripped before parsing and every missing component is 0, so that the
\* bumped version is three numbers, never a non-number.
C26_TolerantParsing ==
    call.op = "calculateNewVersion"
    => /\ call.currentVersion = Dotted(call.parts)
       /\ call.result = BumpedVersion

(***************************************************************************)
(* The title the feature stage writes                                      *)
(***************************************************************************)

\* where the summary starts in a title of the release form
SummaryStart(title, versionPrefix) ==
    LET d == Len("MAJOR Release: " \o versionPrefix)
        c == DigitsEnd(title, DigitsEnd(title, DigitsEnd(title, d) + 1) + 1)
    IN  c + 2

\* the pull requests whose title a feature stage has written
Retitled == {i \in 1..Len(pulls) :
                \E w \in 1..Len(writes) :
                    writes[w].op = "title" /\ writes[w].target = pulls[i].number}

CountLine(ls, l) == Cardinality({i \in 1..Len(ls) : ls[i] = l})

\* "(via [#<n>](<url>) by @<author>)" for the pull request of the event
Attribution(sourcePR) ==
    "(via [#" \o NatToString(sourcePR.number) \o "](" \o sourcePR.html_url
    \o ") by @" \o sourcePR.user \o ")"

\* the bullets of the summary, each with the attribution of the event
AttributedBullets(aiSummary, sourcePR) ==
    LET parsed == parseSummary(aiSummary)[1] \o parseSummary(aiSummary)[2]
    IN  [i \in 1..Len(parsed) |-> "- " \o parsed[i] \o " " \o Attribution(sourcePR)]

IsBulletLine(l) == StartsWithAt(l, "- ", 0)

\* C28: every bullet a feature event inserts carries the attribution of the
\* merged pull request of the event, the event inserts exactly the bullets
\* parsed from its summary, and the bullets that are in the body already
\* stay as they are, text and attribution.
C28_AttributedBulletsOnly ==
    call.op = "updatePRWithAISummary"
    => LET old == Lines(call.prBody)
           new == Lines(call.result)
           inserted == AttributedBullets(call.aiSummary, call.sourcePR)
       IN  \A l \in {x \in Range(old) \cup Range(new) \cup Range(inserted) :
                        IsBulletLine(x)} :
               CountLine(new, l) = CountLine(old, l) + CountLine(inserted, l)

(***************************************************************************)
(* Events that are not qualifying merges                                   *)
(***************************************************************************)

\* the configuration of the repository: its document merged with the
\* defaults, the defaults when it has none
RepositoryConfig ==
    IF configFile = "custom" THEN mergeConfigs(DEFAULT_CONFIG, CUSTOM_CONFIG)
    ELSE DEFAULT_CONFIG

\* the event is a merge from a head that is not the release branch into
\* staging, or the merge of staging into release
Qualifying(ev) ==
    /\ ev.payload.merged
    /\ \/ /\ ev.payload.base = RepositoryConfig.branches.staging
          /\ ev.payload.head # RepositoryConfig.branches.release
       \/ /\ ev.payload.base = RepositoryConfig.branches.release
          /\ ev.payload.head = RepositoryConfig.branches.staging

\* the invocation wrote nothing and called no classifier
NoEffect(e) ==
    /\ WritesOf(e) = {}
    /\ events[e].summaryCall = "none"
    /\ events[e].versionCall = "none"
    /\ events[e].notesCall = "none"

\* C29: an event that is not a qualifying merge (closed without a merge, or
\* a branch pair that is neither feature to staging nor staging to release)
\* writes nothing, calls no classifier, and its processing ends normally.
C29_NonQualifyingNoOp ==
    \A e \in 1..Len(events) :
        events[e].pc # "handler" /\ configFile # "malformed"
        /\ ~Qualifying(events[e])
        => /\ NoEffect(e)
           /\ events[e].pc = "done"
           /\ events[e].error = ""

(***************************************************************************)
(* The round trip of a merged document                                     *)
(***************************************************************************)

\* the header lines of a text, in order
HeadersOf(text) == SelectSeq(Lines(text), IsHeaderLine)

\* the bullets of the section with the given header, in order: the bullet
\* lines between the first line that is the header and the next header line
BulletsUnder(text, header) ==
    LET ls    == Lines(text)
        at    == {i \in 1..Len(ls) : ls[i] = header}
        first == CHOOSE i \in at : \A j \in at : i <= j
        ends  == {i \in (first + 1)..Len(ls) : IsHeaderLine(ls[i])}
        last  == IF ends = {} THEN Len(ls)
                 ELSE (CHOOSE i \in ends : \A j \in ends : i <= j) - 1
    IN  IF at = {} THEN <<>>
        ELSE SelectSeq(SubSeq(ls, first + 1, last), IsBulletLine)

\* C30: a document a merge has produced, written out and read again, has
\* the two sections in the same order and in each the same bullets in the
\* same order, so a further merge finds the bullets of the earlier merges:
\* after it each section holds its new bullets above those it held, and the
\* headers are as they were.
C30_RoundTrip ==
    mCount = 2 =>
        /\ HeadersOf(mBody) = HeadersOf(mPrev)
        /\ \A header \in {FEATURES_HEADER, BUGS_HEADER} :
               BulletsUnder(mBody, header)
               = NewBullets(header) \o BulletsUnder(mPrev, header)

(***************************************************************************)
(* Merging into a section that has no content                              *)
(***************************************************************************)

\* the section with the given header has blank lines only, or no line at
\* all, up to the next header or the end of the text
EmptySection(ls, header) ==
    LET h == HeaderLineIndex(ls, header)
    IN  /\ h # 0
        /\ \A i \in (h + 1)..Len(ls) : SectionOf(ls, i) = h => ls[i] = ""

\* C31: when the header of the section merged into is there and the section
\* has no content (the header is the last line of the text, or the next
\* header follows it, or only blank lines do), the new bullets come
\* directly after the header line, not before it and not in the section
\* that follows.
C31_EmptySectionInsertAfterHeader ==
    \A header \in {FEATURES_HEADER, BUGS_HEADER} :
        (MergedOnlyInto(header) /\ EmptySection(Lines(mPrev), header)) =>
            Lines(mBody) =
                InsertLines(Lines(mPrev),
                            HeaderLineIndex(Lines(mPrev), header),
                            NewBullets(header))

(***************************************************************************)
(* Parsing the categorized text                                            *)
(***************************************************************************)

\* the lines of the text that are bullets: "-" or "*", whitespace, text
BulletLinesOf(text) ==
    LET ls == Lines(text)
    IN  {i \in 1..Len(ls) :
            /\ StartsWithAt(ls[i], "- ", 0) \/ StartsWithAt(ls[i], "* ", 0)
            /\ Trim(SubstringFrom(ls[i], 2)) # ""}

\* C32: parsing the categorized text gives two sections, New Features
\* first and Bugs / Improvements second, also when they are empty, and a
\* bullet line of the text goes to at most one of them, whatever the order
\* of the headings in the text: the two sections together hold no more
\* bullets than the text has bullet lines, and a bullet that the text has
\* once is not in both.
C32_BulletsInOneSection ==
    call.op = "parseSummary" =>
        /\ Len(call.result) = 2
        /\ Len(call.result[1]) + Len(call.result[2])
           <= Cardinality(BulletLinesOf(call.aiSummary))
        /\ \A b \in Range(call.result[1]) \cap Range(call.result[2]) :
               Cardinality({i \in BulletLinesOf(call.aiSummary) :
                   Trim(SubstringFrom(Lines(call.aiSummary)[i], 2)) = b}) >= 2

(***************************************************************************)
(* The version in the title of the draft                                   *)
(***************************************************************************)

\* the version of the latest release, its tag without the version prefix
LatestReleaseVersion ==
    StripPrefix(releases[Len(releases)].tag_name, DEFAULT_CONFIG.release.prefix)

\* getCurrentVersion returns to updatePRTitleWithInfo in this step
VersionReadForTitle(e) ==
    /\ ReadingVersion(events[e])
    /\ events[e].resume = "updateTitle"
    /\ events'[e].pc = "updateTitle"

\* the title is written in this step
TitleWritten(e) ==
    /\ events[e].pc = "updateTitle"
    /\ events'[e].pc \notin {"updateTitle", "failed"}

\* C33: the version a feature event writes into the title of the draft is
\* nextVersion of the version of the latest release at the moment the event
\* reads it and of the bump class of the event; the previous title plays no
\* part, so feature merges without a release between them do not compound.
C33_TitleFromLatestRelease ==
    [][\A e \in 1..Len(events) :
           /\ VersionReadForTitle(e) /\ releases # <<>>
              => events'[e].currentVersion = LatestReleaseVersion
           /\ TitleWritten(e)
              => NumberInTitle(pulls'[PullIndex(events[e].prToUpdate)].title)
                 = calculateNewVersion(events[e].currentVersion,
                                       ToLowerCase(events[e].versionType))]_vars

\* major, minor and patch of a version "major.minor.patch"
Triple(version) ==
    LET parts == Split(version, ".")
    IN  [i \in 1..3 |-> ParseInt(PartOrZero(parts, i))[1]]

\* version a is later than version b
Later(a, b) ==
    LET x == Triple(a)
        y == Triple(b)
    IN  \/ x[1] > y[1]
        \/ x[1] = y[1] /\ x[2] > y[2]
        \/ x[1] = y[1] /\ x[2] = y[2] /\ x[3] > y[3]

\* C34: when a feature event writes the title of the draft, the version in
\* the title is later than the version of every release published so far,
\* also when a release event is handled at the same time.
C34_TitleAboveEveryRelease ==
    [][\A e \in 1..Len(events) :
           TitleWritten(e) =>
               \A r \in 1..Len(releases) :
                   Later(NumberInTitle(pulls'[PullIndex(events[e].prToUpdate)].title),
                         StripPrefix(releases[r].tag_name,
                                     DEFAULT_CONFIG.release.prefix))]_vars

\* C35: every title the feature stage writes, for every configured prefix
\* and every current version, is accepted by the check of the title in the
\* release stage, which finds the bump class of the title and publishes the
\* tag the title names, the prefix followed by the version.
C35_TitleRoundTrip ==
    call.op = "titleRoundTrip"
    => /\ call.match.found
       /\ call.match.versionType = call.versionType
       /\ call.version =
              call.versionPrefix
              \o calculateNewVersion(call.currentVersion, ToLowerCase(call.versionType))
       /\ StartsWithAt(call.title, call.versionType \o " Release: " \o call.version \o ": ", 0)

(***************************************************************************)
(* What each stage writes                                                  *)
(***************************************************************************)

\* the kinds of the writes of the invocation
OpsOf(e) == {writes[i].op : i \in WritesOf(e)}

FailsAfterBody(e) ==
    /\ WritesWith(e, "body") # {}
    /\ events[e].failedCall = ""
    /\ events'[e].failedCall # ""

\* C37: nothing is rolled back when a step fails part way: when the body
\* update of a feature event has succeeded and a later step fails (the
\* comment, the reading of the version, the title update), the error leaves
\* the event, the body keeps the new bullets, the title stays as it was
\* before the event, and the event does nothing more.
C37_NoRollbackNoContinuation ==
    [][\A e \in 1..Len(events) :
           /\ FailsAfterBody(e)
              => /\ events'[e].pc = "failed"
                 /\ events'[e].error # ""
                 /\ pulls' = pulls
           /\ (events[e].pc = "failed" /\ events[e].failedCall # "")
              => /\ events'[e] = events[e]
                 /\ \A w \in (Len(writes) + 1)..Len(writes') : writes'[w].event # e]_vars

(***************************************************************************)
(* The classification call of the title step                               *)
(***************************************************************************)

=============================================================================
